---- MODULE Spec2Model ----
(***************************************************************************)
(* A state-machine model of the Nedrysoft component system's               *)
(* ComponentLoader (src/src/ComponentLoader.cpp) and Component             *)
(* (src/src/Component.cpp): discovery (addComponents), dependency lookup,  *)
(* load-order resolution, loading and lifecycle dispatch (loadComponents)  *)
(* and teardown (unloadComponents, the destructor).                        *)
(*                                                                         *)
(* Every public operation is one action.  The callbacks and backend calls  *)
(* an operation makes are appended, in the order the code makes them, to   *)
(* the history variable calls.                                             *)
(***************************************************************************)
EXTENDS Integers, Sequences, FiniteSets, TLC

(***************************************************************************)
(* Bounds of the model.                                                    *)
(***************************************************************************)
\* Component objects created in one session (one per accepted plugin file).
MaxComponents == 3
\* Entries of one plugin's "Dependencies" metadata array.
MaxDependencies == 2
\* loadComponents calls in one session.
MaxLoadCalls == 2
\* explicit unloadComponents calls in one session.
MaxUnloadCalls == 1
\* Components the host's loadFunction rejects in one loadComponents call.
MaxDisabled == 1
\* Plugin files whose QPluginLoader fails (load or interface) in one call.
MaxBackendFailures == 1
\* Components rejected or failing in the backend in one loadComponents call.
MaxFaults == 1
MaxSessionUnloads == 2
MaxRegistryCalls == 4

(***************************************************************************)
(* Generic helpers on sequences.                                           *)
(***************************************************************************)
Range(s) == {s[i] : i \in DOMAIN s}

\* QList::contains
Contains(s, x) == \E i \in DOMAIN s : s[i] = x

RECURSIVE Reverse(_)
Reverse(s) == IF s = <<>> THEN <<>> ELSE Append(Reverse(Tail(s)), Head(s))

\* position of the first occurrence of x in s, 0 when absent
IndexOf(s, x) == IF Contains(s, x) THEN CHOOSE i \in DOMAIN s : s[i] = x /\ \A j \in 1..(i - 1) : s[j] # x ELSE 0

NoDuplicates(s) == \A i, j \in DOMAIN s : i # j => s[i] # s[j]

\* Body(value), with value evaluated once
Let(value, Body(_)) == CHOOSE r \in {Body(x) : x \in {value}} : TRUE

(***************************************************************************)
(* Names.  QMap<QString, Component *> keeps its keys in ascending QString  *)
(* order; NameOrder lists the names of the model in that order.            *)
(***************************************************************************)
NameOrder == <<"A", "B", "C">>
Names == Range(NameOrder)
\* a dependency name no plugin file carries
AbsentName == "Z"
DependencyNames == Names \cup {AbsentName}

(***************************************************************************)
(* Version strings and QVersionNumber.  A string is a sequence of          *)
(* one-character strings.                                                  *)
(***************************************************************************)
Digits == {"0", "1", "2", "3", "4", "5", "6", "7", "8", "9"}

DigitValue(c) == CASE c = "0" -> 0 [] c = "1" -> 1 [] c = "2" -> 2 [] c = "3" -> 3 [] c = "4" -> 4
                   [] c = "5" -> 5 [] c = "6" -> 6 [] c = "7" -> 7 [] c = "8" -> 8 [] c = "9" -> 9

\* index just past the run of digits that starts at i
RECURSIVE DigitsEnd(_, _)
DigitsEnd(s, i) == IF i <= Len(s) /\ s[i] \in Digits THEN DigitsEnd(s, i + 1) ELSE i

\* decimal value of s[i..j-1]
RECURSIVE DecimalValue(_, _, _, _)
DecimalValue(s, i, j, acc) == IF i >= j THEN acc ELSE DecimalValue(s, i + 1, j, acc * 10 + DigitValue(s[i]))

\* QVersionNumber::fromString: dot-separated numeric segments of the longest
\* prefix that parses; the rest of the string is ignored.
RECURSIVE ParseSegments(_, _)
ParseSegments(s, i) ==
    LET j == DigitsEnd(s, i)
    IN  IF j = i
        THEN <<>>
        ELSE <<DecimalValue(s, i, j, 0)>> \o
             (IF j <= Len(s) /\ s[j] = "." THEN ParseSegments(s, j + 1) ELSE <<>>)

fromString(s) == ParseSegments(s, 1)

\* QVersionNumber::compare: < 0, 0 or > 0
RECURSIVE CompareFrom(_, _, _)
CompareFrom(v1, v2, i) ==
    IF i <= Len(v1) /\ i <= Len(v2)
    THEN IF v1[i] # v2[i] THEN v1[i] - v2[i] ELSE CompareFrom(v1, v2, i + 1)
    ELSE IF i <= Len(v1) THEN (IF v1[i] # 0 THEN v1[i] ELSE 1)
    ELSE IF i <= Len(v2) THEN (IF v2[i] # 0 THEN 0 - v2[i] ELSE 0 - 1)
    ELSE 0

\* faulty variant: only the major numbers are compared
compareMajorOnly(v1, v2) == v1[1] - v2[1]

compare(v1, v2) == CompareFrom(v1, v2, 1)

\* faulty variant: the comparison is reversed
VersionGreater(v1, v2) == compare(v1, v2) > 0

\* operator< of QVersionNumber
VersionLess(v1, v2) == compare(v1, v2) < 0

S190 == <<"1", ".", "9", ".", "0">>
S1100 == <<"1", ".", "1", "0", ".", "0">>
VersionStrings == {S190, S1100}
S10 == <<"1", ".", "0">>
S20 == <<"2", ".", "0">>

(***************************************************************************)
(* The Qt version a plugin was built against, packed as 0xMMMMmmpp.        *)
(***************************************************************************)
QtMajorBitShift == 16
QtMinorBitShift == 8
QtPatchBitShift == 0

Pow2(n) == 2 ^ n

\* faulty variant: the value is shifted by the minor shift and not masked
componentQtUnmasked(v) == v \div Pow2(QtMinorBitShift)

\* (v & 0xFFFF0000) >> 16 on a 32-bit unsigned value
componentQtMajor(v) == (v \div Pow2(QtMajorBitShift)) % Pow2(QtMajorBitShift)
\* (v & 0x0000FF00) >> 8
componentQtMinor(v) == (v \div Pow2(QtMinorBitShift)) % Pow2(QtMinorBitShift)
\* (v & 0x000000FF) >> 0
componentQtPatch(v) == (v \div Pow2(QtPatchBitShift)) % Pow2(QtMinorBitShift)

PackQt(major, minor, patch) == major * Pow2(QtMajorBitShift) + minor * Pow2(QtMinorBitShift) + patch

\* QLibraryInfo::version() of the host: 5.15.2
applicationQtVersion == <<5, 15, 2>>
\* QLibraryInfo::isDebugBuild() of the host, after the QT_DEBUG adjustment
applicationDebugBuild == FALSE

QtSame == PackQt(5, 15, 2)
QtOtherMinor == PackQt(5, 12, 8)
QtOtherMajor == PackQt(6, 2, 0)
QtOtherPatch == PackQt(5, 15, 0)
QtOlderMajor == PackQt(4, 15, 2)

(***************************************************************************)
(* ComponentLoader::LoadFlag.  A LoadFlags value is the set of its bits;   *)
(* Unloaded is the empty set.                                              *)
(***************************************************************************)
Loaded == "Loaded"
IncompatibleQtVersion == "IncompatibleQtVersion"
NameClash == "NameClash"
MissingDependency == "MissingDependency"
Disabled == "Disabled"
IncompatibleVersion == "IncompatibleVersion"
UnableToLoad == "UnableToLoad"
MissingInterface == "MissingInterface"
Unloaded == {}

LoadFlag == {Loaded, IncompatibleQtVersion, NameClash, MissingDependency, Disabled,
             IncompatibleVersion, UnableToLoad, MissingInterface}
FailureFlags == LoadFlag \ {Loaded}

(***************************************************************************)
(* Plugin files: what QPluginLoader::metaData() returns for one file of a  *)
(* component folder.                                                       *)
(***************************************************************************)
Dependency(name, version) == [Name |-> name, Version |-> version]

RECURSIVE SeqsUpTo(_, _)
SeqsUpTo(S, n) == IF n = 0 THEN {<<>>} ELSE SeqsUpTo(S, n - 1) \cup {Append(s, x) : s \in SeqsUpTo(S, n - 1), x \in S}

PluginFile(name, version, dependencies, qtVersion, debug) ==
    [debug |-> debug, version |-> qtVersion,
     MetaData |-> [Name |-> name, Version |-> version, Dependencies |-> dependencies]]

(***************************************************************************)
(* State.                                                                  *)
(***************************************************************************)
VARIABLES
    heap,                   \* the Component objects: Component * -> fields
    m_componentSearchList,  \* QMap<QString, Component *>
    m_loadOrder,            \* QList<QPair<QPluginLoader *, Component *>>
    operations,             \* history: the load and unload operations run so far
    calls,                  \* history: callbacks and backend calls made so far
    destroyed,              \* the ComponentLoader has been destroyed
    m_objectList,           \* IComponentManager: QList<QObject *>
    registryOperations      \* history: the addObject and removeObject calls made so far

\* the variables of the object registry
registry == <<m_objectList, registryOperations>>

vars == <<heap, m_componentSearchList, m_loadOrder, operations, calls, destroyed, m_objectList,
          registryOperations>>

\* Component::Component(name, filename, metadata)
Component(name, metadata) ==
    [m_name |-> name,
     m_metadata |-> metadata,
     m_dependencies |-> <<>>,
     m_isLoaded |-> FALSE,
     m_loadFlags |-> Unloaded,
     m_missingDependencies |-> <<>>,
     m_dependencyVersions |-> <<>>]

\* faulty variant: the objects are numbered in the order of their creation
NewComponentInOrder(h, name) == <<name, Cardinality(DOMAIN h)>>

\* A Component * is the name the object was created with and how many objects of
\* that name were created before it.
NewComponent(h, name) == <<name, Cardinality({p \in DOMAIN h : p[1] = name})>>

\* the keys of the map in QMap iteration order
Keys(map) == SelectSeq(NameOrder, LAMBDA n : n \in DOMAIN map)

\* QMap::values(): the values in ascending key order
Values(map) == [i \in DOMAIN Keys(map) |-> map[Keys(map)[i]]]

\* ComponentLoader::components
components == Values(m_componentSearchList)

\* Component::isLoaded
isLoaded(h, c) == h[c].m_isLoaded

\* Component::version
version(h, c) == fromString(h[c].m_metadata.MetaData.Version)

\* Component::canBeDisabled
canBeDisabled(h, c) ==
    LET componentMetadata == h[c].m_metadata.MetaData
    IN  IF "CanBeDisabled" \in DOMAIN componentMetadata
        THEN componentMetadata.CanBeDisabled
        ELSE TRUE

\* Component::missingDependencies
missingDependencies(h, c) == h[c].m_missingDependencies

(***************************************************************************)
(* ComponentLoader::addComponents                                          *)
(***************************************************************************)
\* one iteration of the directory loop, on the loader state st
\* faulty variant: the search list keeps the record it already has for the name
AddComponentKeepingFirst(st, file) ==
    IF file.debug # applicationDebugBuild
    THEN st
    ELSE LET componentName == file.MetaData.Name
             component == NewComponent(st.heap, componentName)
             qtFlag == IF componentQtMajor(file.version) # applicationQtVersion[1]
                       THEN {IncompatibleQtVersion} ELSE {}
             clashFlag == IF componentName \in DOMAIN st.search THEN {NameClash} ELSE {}
             object == [Component(componentName, file) EXCEPT !.m_loadFlags = qtFlag \cup clashFlag]
         IN  [heap |-> (component :> object) @@ st.heap,
              search |-> st.search @@ (componentName :> component)]

AddComponent(st, file) ==
    IF file.debug # applicationDebugBuild
    THEN st
    ELSE LET componentName == file.MetaData.Name
             component == NewComponent(st.heap, componentName)
             qtFlag == IF componentQtMajor(file.version) # applicationQtVersion[1]
                       THEN {IncompatibleQtVersion} ELSE {}
             clashFlag == IF componentName \in DOMAIN st.search THEN {NameClash} ELSE {}
             object == [Component(componentName, file) EXCEPT !.m_loadFlags = qtFlag \cup clashFlag]
         IN  [heap |-> (component :> object) @@ st.heap,
              search |-> (componentName :> component) @@ st.search]

RECURSIVE AddComponentsLoop(_, _, _)
AddComponentsLoop(st, folder, i) ==
    IF i > Len(folder)
    THEN st
    ELSE Let(AddComponent(st, folder[i]), LAMBDA next : AddComponentsLoop(next, folder, i + 1))

\* the files of the folder that pass the debug check each create a Component
Accepted(folder) == Cardinality({i \in DOMAIN folder : folder[i].debug = applicationDebugBuild})

addComponents(componentFolder) ==
    /\ ~destroyed
    /\ Cardinality(DOMAIN heap) + Accepted(componentFolder) <= MaxComponents
    /\ \E st \in {AddComponentsLoop([heap |-> heap, search |-> m_componentSearchList], componentFolder, 1)} :
           /\ heap' = st.heap
           /\ m_componentSearchList' = st.search
    /\ UNCHANGED <<m_loadOrder, operations, calls, destroyed>>
    /\ UNCHANGED registry

(***************************************************************************)
(* History.  operations has one entry per loadComponents, unloadComponents *)
(* or destructor run: its name, m_loadOrder on entry (before) and on       *)
(* return (after) and, for loadComponents, its two local lists.  calls has *)
(* one entry per callback or backend call, tagged with the index in        *)
(* operations of the operation that makes it.                              *)
(***************************************************************************)
Event(call, what, component) == [call |-> call, event |-> what, component |-> component]

Operation(name, before, after, componentLoadList, loadList) ==
    [operation |-> name, before |-> before, after |-> after,
     componentLoadList |-> componentLoadList, resolvedLoadList |-> loadList]

\* the index in operations of the operation that runs next
ThisCall == Len(operations) + 1

loadCalls == Cardinality({k \in DOMAIN operations : operations[k].operation = "loadComponents"})
unloadCalls == Cardinality({k \in DOMAIN operations : operations[k].operation = "unloadComponents"})

(***************************************************************************)
(* ComponentLoader::loadComponents, first loop: find and add dependencies  *)
(***************************************************************************)
\* Component::addDependency
\* faulty variant: the minimum version of the first declaration is kept
addDependencyKeepingFirst(object, dependency, versionNumber) ==
    [object EXCEPT !.m_dependencyVersions = @ @@ (dependency :> versionNumber),
                   !.m_dependencies = Append(@, dependency)]

addDependency(object, dependency, versionNumber) ==
    [object EXCEPT !.m_dependencyVersions = (dependency :> versionNumber) @@ @,
                   !.m_dependencies = Append(@, dependency)]

\* faulty variant: the name is recorded but the flag is not set
appendMissingOnly(object, dependencyName) ==
    [object EXCEPT !.m_missingDependencies = Append(@, dependencyName)]

\* faulty variant: the flag is set but the name is not recorded
flagMissingOnly(object, dependencyName) ==
    [object EXCEPT !.m_loadFlags = @ \cup {MissingDependency}]

\* the else branch of the lookup: the name is not in the search list
addMissingDependency(object, dependencyName) ==
    [object EXCEPT !.m_missingDependencies = Append(@, dependencyName),
                   !.m_loadFlags = @ \cup {MissingDependency}]

\* for (auto dependency : dependencies), on the Component value object
RECURSIVE DependenciesLoop(_, _, _, _)
DependenciesLoop(object, dependencies, i, search) ==
    IF i > Len(dependencies)
    THEN object
    ELSE LET dependencyName == dependencies[i].Name
             dependencyVersion == dependencies[i].Version
         IN  Let(IF dependencyName \in DOMAIN search
                 THEN addDependency(object, search[dependencyName], fromString(dependencyVersion))
                 ELSE addMissingDependency(object, dependencyName),
                 LAMBDA next : DependenciesLoop(next, dependencies, i + 1, search))

\* faulty variant: a record is appended to componentLoadList whatever flags
\* the lookup of its dependencies has set
RECURSIVE FindDependenciesAll(_, _, _, _)
FindDependenciesAll(st, search, keys, i) ==
    IF i > Len(keys)
    THEN st
    ELSE LET component == search[keys[i]]
         IN  IF st.heap[component].m_loadFlags # {}
             THEN FindDependenciesAll(st, search, keys, i + 1)
             ELSE Let(DependenciesLoop(st.heap[component],
                                       st.heap[component].m_metadata.MetaData.Dependencies,
                                       1, search),
                      LAMBDA object :
                          FindDependenciesAll(
                              [heap |-> [st.heap EXCEPT ![component] = object],
                               componentLoadList |-> Append(st.componentLoadList, component)],
                              search, keys, i + 1))

\* while (componentIterator.hasNext()), st = [heap, componentLoadList]
RECURSIVE FindDependencies(_, _, _, _)
FindDependencies(st, search, keys, i) ==
    IF i > Len(keys)
    THEN st
    ELSE LET component == search[keys[i]]
         IN  IF st.heap[component].m_loadFlags # {}
             THEN FindDependencies(st, search, keys, i + 1)
             ELSE Let(DependenciesLoop(st.heap[component],
                                       st.heap[component].m_metadata.MetaData.Dependencies,
                                       1, search),
                      LAMBDA object :
                          FindDependencies(
                              [heap |-> [st.heap EXCEPT ![component] = object],
                               componentLoadList |-> IF object.m_loadFlags = {}
                                                     THEN Append(st.componentLoadList, component)
                                                     ELSE st.componentLoadList],
                              search, keys, i + 1))

(***************************************************************************)
(* ComponentLoader::resolve and the second loop of loadComponents          *)
(***************************************************************************)
\* resolve(component, resolvedList, processedList); the two lists are in-out
RECURSIVE resolveProcessed(_, _, _, _)
RECURSIVE ResolveDependencies(_, _, _, _, _)

ResolveDependencies(h, dependencies, i, resolvedList, processedList) ==
    IF i > Len(dependencies)
    THEN [resolvedList |-> resolvedList, processedList |-> processedList]
    ELSE LET dependency == dependencies[i]
         IN  IF Contains(resolvedList, dependency) \/ Contains(processedList, dependency)
             THEN ResolveDependencies(h, dependencies, i + 1, resolvedList, processedList)
             ELSE Let(resolveProcessed(h, dependency, resolvedList, processedList),
                      LAMBDA r : ResolveDependencies(h, dependencies, i + 1, r.resolvedList, r.processedList))

\* faulty variant: the component is appended before its dependencies are resolved
resolvePreOrder(h, component, resolvedList, processedList) ==
    ResolveDependencies(h, h[component].m_dependencies, 1, Append(resolvedList, component),
                        Append(processedList, component))

resolveProcessed(h, component, resolvedList, processedList) ==
    Let(ResolveDependencies(h, h[component].m_dependencies, 1, resolvedList,
                            Append(processedList, component)),
        LAMBDA r : [resolvedList |-> Append(r.resolvedList, component), processedList |-> r.processedList])

\* resolve(component, resolvedList)
resolve(h, component, resolvedList) == resolveProcessed(h, component, resolvedList, <<>>).resolvedList

\* faulty variant: the merge appends without the contains() test
MergeAll(loadList, dependencyResolveList, i) == loadList \o dependencyResolveList

\* for (auto dependency : dependencyResolveList)
RECURSIVE MergeResolved(_, _, _)
MergeResolved(loadList, dependencyResolveList, i) ==
    IF i > Len(dependencyResolveList)
    THEN loadList
    ELSE Let(IF ~Contains(loadList, dependencyResolveList[i])
             THEN Append(loadList, dependencyResolveList[i])
             ELSE loadList,
             LAMBDA next : MergeResolved(next, dependencyResolveList, i + 1))

\* for (auto current : componentLoadList)
RECURSIVE ResolveLoadOrder(_, _, _, _)
ResolveLoadOrder(h, componentLoadList, i, loadList) ==
    IF i > Len(componentLoadList)
    THEN loadList
    ELSE LET current == componentLoadList[i]
         IN  Let(IF ~Contains(loadList, current)
                 THEN MergeResolved(loadList, resolve(h, current, <<>>), 1)
                 ELSE loadList,
                 LAMBDA next : ResolveLoadOrder(h, componentLoadList, i + 1, next))

(***************************************************************************)
(* Component::validateDependencies                                         *)
(***************************************************************************)
\* faulty variant: the loop ends at the first dependency that sets a flag
RECURSIVE ValidateLoopStopping(_, _, _, _)
ValidateLoopStopping(h, component, flags, i) ==
    IF i > Len(h[component].m_dependencies) \/ flags # h[component].m_loadFlags
    THEN flags
    ELSE LET dependency == h[component].m_dependencies[i]
         IN  ValidateLoopStopping(h, component,
                 IF ~isLoaded(h, dependency)
                 THEN flags \cup {MissingDependency}
                 ELSE IF VersionLess(version(h, dependency), h[component].m_dependencyVersions[dependency])
                      THEN flags \cup {IncompatibleVersion}
                      ELSE flags,
                 i + 1)

RECURSIVE ValidateLoop(_, _, _, _)
ValidateLoop(h, component, flags, i) ==
    IF i > Len(h[component].m_dependencies)
    THEN flags
    ELSE LET dependency == h[component].m_dependencies[i]
         IN  Let(IF ~isLoaded(h, dependency)
                 THEN flags \cup {MissingDependency}
                 ELSE IF VersionLess(version(h, dependency), h[component].m_dependencyVersions[dependency])
                      THEN flags \cup {IncompatibleVersion}
                      ELSE flags,
                 LAMBDA next : ValidateLoop(h, component, next, i + 1))

\* faulty variant: nothing is validated
validateNothing(h, component) == h

\* faulty variant: the version of a loaded dependency is not compared
validateLoadedOnly(h, component) ==
    [h EXCEPT ![component].m_loadFlags =
        @ \cup (IF \E i \in DOMAIN h[component].m_dependencies : ~isLoaded(h, h[component].m_dependencies[i])
                THEN {MissingDependency} ELSE {})]

\* faulty variant: a dependency that is not loaded is not flagged
validateVersionOnly(h, component) ==
    [h EXCEPT ![component].m_loadFlags =
        @ \cup (IF \E i \in DOMAIN h[component].m_dependencies :
                       /\ isLoaded(h, h[component].m_dependencies[i])
                       /\ VersionLess(version(h, h[component].m_dependencies[i]),
                                      h[component].m_dependencyVersions[h[component].m_dependencies[i]])
                THEN {IncompatibleVersion} ELSE {})]

validateDependencies(h, component) ==
    [h EXCEPT ![component].m_loadFlags = ValidateLoop(h, component, @, 1)]

(***************************************************************************)
(* ComponentLoader::loadComponents, third loop: load the components        *)
(***************************************************************************)
\* The host's loadFunction: nullptr, or a predicate on the component (here on
\* its name).  The outcome of QPluginLoader on a component's file: "loaded",
\* "loadFailed" (load() returns false) or "noInterface" (the instance is no
\* IComponent).
setFlag(h, component, flag) == [h EXCEPT ![component].m_loadFlags = @ \cup {flag}]

\* faulty variant: the flags set by validateDependencies are not tested
LoadUnchecked(st, validated, component, loadFunction, pluginLoader, call) ==
    [heap |-> [setFlag(validated, component, Loaded) EXCEPT ![component].m_isLoaded = TRUE],
     loadOrder |-> Append(st.loadOrder, [first |-> component, second |-> component]),
     calls |-> Append(st.calls, Event(call, "load", component))]

\* faulty variant: the plugin is loaded before the load function is asked
LoadBeforeAsking(st, validated, component, loadFunction, pluginLoader, call) ==
    LET name == validated[component].m_name
        attempted == Append(st.calls, Event(call, "load", component))
        asked == IF loadFunction.null
                 THEN attempted
                 ELSE Append(attempted, Event(call, "loadFunction", component))
    IN  IF validated[component].m_loadFlags # {}
        THEN [st EXCEPT !.heap = validated]
        ELSE IF pluginLoader[name] = "loadFailed"
        THEN [st EXCEPT !.heap = setFlag(validated, component, UnableToLoad),
                        !.calls = Append(attempted, Event(call, "delete", component))]
        ELSE IF pluginLoader[name] = "noInterface"
        THEN [st EXCEPT !.heap = setFlag(validated, component, MissingInterface),
                        !.calls = Append(attempted, Event(call, "delete", component))]
        ELSE IF ~loadFunction.null /\ ~loadFunction.accepts[name]
        THEN [st EXCEPT !.heap = setFlag(validated, component, Disabled),
                        !.calls = Append(asked, Event(call, "delete", component))]
        ELSE [heap |-> [setFlag(validated, component, Loaded) EXCEPT ![component].m_isLoaded = TRUE],
              loadOrder |-> Append(st.loadOrder, [first |-> component, second |-> component]),
              calls |-> asked]

\* faulty variant: without a load function every record is rejected
LoadNullRejects(st, validated, component, loadFunction, pluginLoader, call) ==
    LET name == validated[component].m_name
        asked == IF loadFunction.null
                 THEN st.calls
                 ELSE Append(st.calls, Event(call, "loadFunction", component))
        attempted == Append(asked, Event(call, "load", component))
    IN  IF validated[component].m_loadFlags # {}
        THEN [st EXCEPT !.heap = validated]
        ELSE IF loadFunction.null \/ ~loadFunction.accepts[name]
        THEN [st EXCEPT !.heap = setFlag(validated, component, Disabled), !.calls = asked]
        ELSE IF pluginLoader[name] = "loadFailed"
        THEN [st EXCEPT !.heap = setFlag(validated, component, UnableToLoad),
                        !.calls = Append(attempted, Event(call, "delete", component))]
        ELSE IF pluginLoader[name] = "noInterface"
        THEN [st EXCEPT !.heap = setFlag(validated, component, MissingInterface),
                        !.calls = Append(attempted, Event(call, "delete", component))]
        ELSE [heap |-> [setFlag(validated, component, Loaded) EXCEPT ![component].m_isLoaded = TRUE],
              loadOrder |-> Append(st.loadOrder, [first |-> component, second |-> component]),
              calls |-> attempted]

\* faulty variant: the instance is not tested for the IComponent interface
LoadWithoutInterfaceCheck(st, validated, component, loadFunction, pluginLoader, call) ==
    LET name == validated[component].m_name
        asked == IF loadFunction.null
                 THEN st.calls
                 ELSE Append(st.calls, Event(call, "loadFunction", component))
        attempted == Append(asked, Event(call, "load", component))
    IN  IF validated[component].m_loadFlags # {}
        THEN [st EXCEPT !.heap = validated]
        ELSE IF ~loadFunction.null /\ ~loadFunction.accepts[name]
        THEN [st EXCEPT !.heap = setFlag(validated, component, Disabled), !.calls = asked]
        ELSE IF pluginLoader[name] = "loadFailed"
        THEN [st EXCEPT !.heap = setFlag(validated, component, UnableToLoad),
                        !.calls = Append(attempted, Event(call, "delete", component))]
        ELSE [heap |-> [setFlag(validated, component, Loaded) EXCEPT ![component].m_isLoaded = TRUE],
              loadOrder |-> Append(st.loadOrder, [first |-> component, second |-> component]),
              calls |-> attempted]

\* faulty variant: the loaded pair is put at the front of m_loadOrder
LoadPrepending(st, validated, component, loadFunction, pluginLoader, call) ==
    LET name == validated[component].m_name
        asked == IF loadFunction.null
                 THEN st.calls
                 ELSE Append(st.calls, Event(call, "loadFunction", component))
        attempted == Append(asked, Event(call, "load", component))
    IN  IF validated[component].m_loadFlags # {}
        THEN [st EXCEPT !.heap = validated]
        ELSE IF ~loadFunction.null /\ ~loadFunction.accepts[name]
        THEN [st EXCEPT !.heap = setFlag(validated, component, Disabled), !.calls = asked]
        ELSE IF pluginLoader[name] = "loadFailed"
        THEN [st EXCEPT !.heap = setFlag(validated, component, UnableToLoad),
                        !.calls = Append(attempted, Event(call, "delete", component))]
        ELSE IF pluginLoader[name] = "noInterface"
        THEN [st EXCEPT !.heap = setFlag(validated, component, MissingInterface),
                        !.calls = Append(attempted, Event(call, "delete", component))]
        ELSE [heap |-> [setFlag(validated, component, Loaded) EXCEPT ![component].m_isLoaded = TRUE],
              loadOrder |-> <<[first |-> component, second |-> component]>> \o st.loadOrder,
              calls |-> attempted]

\* faulty variant: a component that cannot be disabled is loaded whatever the
\* load function answers
LoadUnlessDisableable(st, validated, component, loadFunction, pluginLoader, call) ==
    LET name == validated[component].m_name
        asked == IF loadFunction.null
                 THEN st.calls
                 ELSE Append(st.calls, Event(call, "loadFunction", component))
        attempted == Append(asked, Event(call, "load", component))
    IN  IF validated[component].m_loadFlags # {}
        THEN [st EXCEPT !.heap = validated]
        ELSE IF ~loadFunction.null /\ ~loadFunction.accepts[name] /\ canBeDisabled(validated, component)
        THEN [st EXCEPT !.heap = setFlag(validated, component, Disabled), !.calls = asked]
        ELSE IF pluginLoader[name] = "loadFailed"
        THEN [st EXCEPT !.heap = setFlag(validated, component, UnableToLoad),
                        !.calls = Append(attempted, Event(call, "delete", component))]
        ELSE IF pluginLoader[name] = "noInterface"
        THEN [st EXCEPT !.heap = setFlag(validated, component, MissingInterface),
                        !.calls = Append(attempted, Event(call, "delete", component))]
        ELSE [heap |-> [setFlag(validated, component, Loaded) EXCEPT ![component].m_isLoaded = TRUE],
              loadOrder |-> Append(st.loadOrder, [first |-> component, second |-> component]),
              calls |-> attempted]

\* the iteration once validateDependencies has run, st = [heap, loadOrder, calls]
LoadValidated(st, validated, component, loadFunction, pluginLoader, call) ==
    LET name == validated[component].m_name
        asked == IF loadFunction.null
                 THEN st.calls
                 ELSE Append(st.calls, Event(call, "loadFunction", component))
        attempted == Append(asked, Event(call, "load", component))
    IN  IF validated[component].m_loadFlags # {}
        THEN [st EXCEPT !.heap = validated]
        ELSE IF ~loadFunction.null /\ ~loadFunction.accepts[name]
        THEN [st EXCEPT !.heap = setFlag(validated, component, Disabled), !.calls = asked]
        ELSE IF pluginLoader[name] = "loadFailed"
        THEN [st EXCEPT !.heap = setFlag(validated, component, UnableToLoad),
                        !.calls = Append(attempted, Event(call, "delete", component))]
        ELSE IF pluginLoader[name] = "noInterface"
        THEN [st EXCEPT !.heap = setFlag(validated, component, MissingInterface),
                        !.calls = Append(attempted, Event(call, "delete", component))]
        ELSE [heap |-> [setFlag(validated, component, Loaded) EXCEPT ![component].m_isLoaded = TRUE],
              loadOrder |-> Append(st.loadOrder, [first |-> component, second |-> component]),
              calls |-> attempted]

\* one iteration of the loop
LoadComponent(st, component, loadFunction, pluginLoader, call) ==
    IF st.heap[component].m_loadFlags # {}
    THEN st
    ELSE Let(validateDependencies(st.heap, component),
             LAMBDA validated : LoadValidated(st, validated, component, loadFunction, pluginLoader, call))

\* faulty variant: the loop ends at the first component that is not loaded
RECURSIVE LoadLoopAborting(_, _, _, _, _, _)
LoadLoopAborting(st, loadList, i, loadFunction, pluginLoader, call) ==
    IF i > Len(loadList)
    THEN st
    ELSE Let(LoadComponent(st, loadList[i], loadFunction, pluginLoader, call),
             LAMBDA next : IF next.heap[loadList[i]].m_isLoaded
                           THEN LoadLoopAborting(next, loadList, i + 1, loadFunction, pluginLoader, call)
                           ELSE next)

\* for (auto component : resolvedLoadList)
RECURSIVE LoadLoop(_, _, _, _, _, _)
LoadLoop(st, loadList, i, loadFunction, pluginLoader, call) ==
    IF i > Len(loadList)
    THEN st
    ELSE Let(LoadComponent(st, loadList[i], loadFunction, pluginLoader, call),
             LAMBDA next : LoadLoop(next, loadList, i + 1, loadFunction, pluginLoader, call))

\* faulty variant: initialiseEvent is dispatched in reverse load order
InitialiseReversed(loadOrder, call) ==
    Reverse([i \in DOMAIN loadOrder |-> Event(call, "initialiseEvent", loadOrder[i].second)])

\* for (auto componentPair : m_loadOrder) ... initialiseEvent()
InitialiseEvents(loadOrder, call) ==
    [i \in DOMAIN loadOrder |-> Event(call, "initialiseEvent", loadOrder[i].second)]

\* faulty variant: initialisationFinishedEvent is dispatched in load order
InitialisationFinishedForward(loadOrder, call) ==
    [i \in DOMAIN loadOrder |-> Event(call, "initialisationFinishedEvent", loadOrder[i].second)]

\* for (rbegin .. rend) ... initialisationFinishedEvent()
InitialisationFinishedEvents(loadOrder, call) ==
    Reverse([i \in DOMAIN loadOrder |-> Event(call, "initialisationFinishedEvent", loadOrder[i].second)])

\* faulty variant: one loop that calls both callbacks on each component in turn
RECURSIVE DispatchInterleaved(_, _)
DispatchInterleaved(loadOrder, call) ==
    IF loadOrder = <<>>
    THEN <<>>
    ELSE <<Event(call, "initialiseEvent", Head(loadOrder).second),
           Event(call, "initialisationFinishedEvent", Head(loadOrder).second)>>
         \o DispatchInterleaved(Tail(loadOrder), call)

\* faulty variant: a run after the first one dispatches no callback
DispatchFirstRunOnly(loadOrder, call) ==
    IF loadCalls > 0
    THEN <<>>
    ELSE InitialiseEvents(loadOrder, call) \o InitialisationFinishedEvents(loadOrder, call)

\* the two dispatch loops that end loadComponents
DispatchLifecycle(loadOrder, call) ==
    InitialiseEvents(loadOrder, call) \o InitialisationFinishedEvents(loadOrder, call)

loadComponents(loadFunction, pluginLoader) ==
    /\ ~destroyed
    /\ loadCalls < MaxLoadCalls
    /\ \E found \in {FindDependencies([heap |-> heap, componentLoadList |-> <<>>],
                                       m_componentSearchList, Keys(m_componentSearchList), 1)} :
       \E loadList \in {ResolveLoadOrder(found.heap, found.componentLoadList, 1, <<>>)} :
       \E done \in {LoadLoop([heap |-> found.heap, loadOrder |-> m_loadOrder, calls |-> calls],
                             loadList, 1, loadFunction, pluginLoader, ThisCall)} :
           /\ heap' = done.heap
           /\ m_loadOrder' = done.loadOrder
           /\ calls' = done.calls \o DispatchLifecycle(done.loadOrder, ThisCall)
           /\ operations' = Append(operations, Operation("loadComponents", m_loadOrder, done.loadOrder,
                                                         found.componentLoadList, loadList))
    /\ UNCHANGED <<m_componentSearchList, destroyed>>
    /\ UNCHANGED registry

(***************************************************************************)
(* ComponentLoader::unloadComponents and the destructor                    *)
(***************************************************************************)
\* one iteration of the reverse loop: every entry of m_loadOrder passed the
\* interface check when it was appended, so componentInterface is not null
UnloadComponent(log, pair, call) ==
    log \o <<Event(call, "finaliseEvent", pair.second), Event(call, "delete", pair.first)>>

\* faulty variant: the loop runs forward, in load order
RECURSIVE UnloadForward(_, _, _, _)
UnloadForward(log, loadOrder, i, call) ==
    IF i < 1
    THEN log
    ELSE UnloadForward(UnloadComponent(log, loadOrder[Len(loadOrder) - i + 1], call), loadOrder, i - 1, call)

RECURSIVE UnloadLoop(_, _, _, _)
UnloadLoop(log, loadOrder, i, call) ==
    IF i < 1
    THEN log
    ELSE Let(UnloadComponent(log, loadOrder[i], call), LAMBDA next : UnloadLoop(next, loadOrder, i - 1, call))

\* faulty variant: unloading resets the status of the unloaded components
UnloadResetting(name) ==
    /\ calls' = UnloadLoop(calls, m_loadOrder, Len(m_loadOrder), ThisCall)
    /\ m_loadOrder' = <<>>
    /\ operations' = Append(operations, Operation(name, m_loadOrder, <<>>, <<>>, <<>>))
    /\ heap' = [c \in DOMAIN heap |->
                   IF \E i \in DOMAIN m_loadOrder : m_loadOrder[i].second = c
                   THEN [heap[c] EXCEPT !.m_loadFlags = Unloaded, !.m_isLoaded = FALSE]
                   ELSE heap[c]]
    /\ UNCHANGED m_componentSearchList
    /\ UNCHANGED registry

\* faulty variant: m_loadOrder is not cleared
UnloadKeeping(name) ==
    /\ calls' = UnloadLoop(calls, m_loadOrder, Len(m_loadOrder), ThisCall)
    /\ m_loadOrder' = m_loadOrder
    /\ operations' = Append(operations, Operation(name, m_loadOrder, m_loadOrder, <<>>, <<>>))
    /\ UNCHANGED <<heap, m_componentSearchList>>
    /\ UNCHANGED registry

\* faulty variant: the unloaded components are marked as not loaded
UnloadMarking(name) ==
    /\ calls' = UnloadLoop(calls, m_loadOrder, Len(m_loadOrder), ThisCall)
    /\ m_loadOrder' = <<>>
    /\ operations' = Append(operations, Operation(name, m_loadOrder, <<>>, <<>>, <<>>))
    /\ heap' = [c \in DOMAIN heap |->
                   IF \E i \in DOMAIN m_loadOrder : m_loadOrder[i].second = c
                   THEN [heap[c] EXCEPT !.m_isLoaded = FALSE]
                   ELSE heap[c]]
    /\ UNCHANGED m_componentSearchList
    /\ UNCHANGED registry

Unload(name) ==
    /\ calls' = UnloadLoop(calls, m_loadOrder, Len(m_loadOrder), ThisCall)
    /\ m_loadOrder' = <<>>
    /\ operations' = Append(operations, Operation(name, m_loadOrder, <<>>, <<>>, <<>>))
    /\ UNCHANGED <<heap, m_componentSearchList>>
    /\ UNCHANGED registry

\* unloadComponents, called at most n times
unloadComponentsUpTo(n) ==
    /\ ~destroyed
    /\ unloadCalls < n
    /\ Unload("unloadComponents")
    /\ UNCHANGED destroyed

unloadComponents == unloadComponentsUpTo(MaxUnloadCalls)

\* ComponentLoader::~ComponentLoader
Destructor ==
    /\ ~destroyed
    /\ Unload("~ComponentLoader")
    /\ destroyed' = TRUE

(***************************************************************************)
(* IComponentManager: the object registry.  A QObject * is the name of the *)
(* object; qobject_cast<T *> succeeds on the objects whose class           *)
(* implements T.                                                           *)
(***************************************************************************)
Objects == {"first", "second", "third"}

Interfaces == {"IFirst", "ISecond", "IUnimplemented"}

\* the interfaces the class of each object implements
Implements ==
    [o \in Objects |->
        CASE o = "first" -> {"IFirst"}
          [] o = "second" -> {"IFirst", "ISecond"}
          [] o = "third" -> {"ISecond"}]

\* the null pointer getObject returns
nullObject == "nullptr"

\* qobject_cast<T *>(object)
qobject_cast(T, object) == IF T \in Implements[object] THEN object ELSE nullObject

\* one call on the registry, with m_objectList before and after it
RegistryOperation(name, object, before, after) ==
    [operation |-> name, object |-> object, before |-> before, after |-> after]

\* IComponentManager::addObject
addObject(object) ==
    /\ Len(registryOperations) < MaxRegistryCalls
    /\ m_objectList' = Append(m_objectList, object)
    /\ registryOperations' = Append(registryOperations,
                                    RegistryOperation("addObject", object, m_objectList, m_objectList'))
    /\ UNCHANGED <<heap, m_componentSearchList, m_loadOrder, operations, calls, destroyed>>

\* faulty variant: only the first occurrence is removed
RECURSIVE removeOne(_, _)
removeOne(list, object) ==
    IF list = <<>>
    THEN <<>>
    ELSE IF Head(list) = object
    THEN Tail(list)
    ELSE <<Head(list)>> \o removeOne(Tail(list), object)

\* QList::removeAll
RECURSIVE removeAll(_, _)
removeAll(list, object) ==
    IF list = <<>>
    THEN <<>>
    ELSE IF Head(list) = object
    THEN removeAll(Tail(list), object)
    ELSE <<Head(list)>> \o removeAll(Tail(list), object)

\* IComponentManager::removeObject
removeObject(object) ==
    /\ Len(registryOperations) < MaxRegistryCalls
    /\ m_objectList' = removeAll(m_objectList, object)
    /\ registryOperations' = Append(registryOperations,
                                    RegistryOperation("removeObject", object, m_objectList, m_objectList'))
    /\ UNCHANGED <<heap, m_componentSearchList, m_loadOrder, operations, calls, destroyed>>

\* IComponentManager::allObjects
allObjects == m_objectList

\* faulty variant: the list is searched from its end
RECURSIVE getObjectFromEnd(_, _, _)
getObjectFromEnd(T, list, i) ==
    IF i > Len(list)
    THEN nullObject
    ELSE IF qobject_cast(T, list[Len(list) + 1 - i]) # nullObject
    THEN qobject_cast(T, list[Len(list) + 1 - i])
    ELSE getObjectFromEnd(T, list, i + 1)

\* getObject<T>: for (auto object : allObjects()) ... return castObject
RECURSIVE getObjectLoop(_, _, _)
getObjectLoop(T, list, i) ==
    IF i > Len(list)
    THEN nullObject
    ELSE IF qobject_cast(T, list[i]) # nullObject
    THEN qobject_cast(T, list[i])
    ELSE getObjectLoop(T, list, i + 1)

getObject(T) == getObjectLoop(T, allObjects, 1)

\* getObjects<T>: for (auto object : allObjects()) ... objectList.append(castObject)
RECURSIVE getObjectsLoop(_, _, _, _)
getObjectsLoop(T, list, i, objectList) ==
    IF i > Len(list)
    THEN objectList
    ELSE IF qobject_cast(T, list[i]) # nullObject
    THEN getObjectsLoop(T, list, i + 1, Append(objectList, qobject_cast(T, list[i])))
    ELSE getObjectsLoop(T, list, i + 1, objectList)

getObjects(T) == getObjectsLoop(T, allObjects, 1, <<>>)

(***************************************************************************)
(* Inputs                                                                  *)
(***************************************************************************)
SubsetsUpTo(S, n) == {T \in SUBSET S : Cardinality(T) <= n}

nullptr == [null |-> TRUE, accepts |-> [n \in Names |-> TRUE]]

LoadFunctions ==
    {nullptr} \cup
    {[null |-> FALSE, accepts |-> [n \in Names |-> n \notin D]] : D \in SubsetsUpTo(Names, MaxDisabled)}

AllLoaded == [n \in Names |-> "loaded"]

PluginLoaders ==
    {[n \in Names |-> IF n \in F THEN kind ELSE "loaded"] :
        F \in SubsetsUpTo(Names, MaxBackendFailures), kind \in {"loadFailed", "noInterface"}}

\* the (load function, plugin loader) pairs of one loadComponents call: at most
\* MaxFaults components are rejected or fail in the backend
Faults(loadFunction, pluginLoader) ==
    Cardinality({n \in Names : ~loadFunction.accepts[n]}) + Cardinality({n \in Names : pluginLoader[n] # "loaded"})

Environments ==
    {e \in [loadFunction : LoadFunctions, pluginLoader : PluginLoaders] :
        Faults(e.loadFunction, e.pluginLoader) <= MaxFaults}

\* The plugin files of the lifecycle specification: components of version 1.9.0
\* or 1.10.0 without dependencies, components with one dependency (on any
\* name, its own and an absent one included) of at least 1.10.0, components
\* built against another Qt major version and debug builds.
Files ==
    {PluginFile(n, v, <<>>, QtSame, FALSE) : n \in Names, v \in VersionStrings}
    \cup {PluginFile(n, S1100, <<Dependency(m, S1100)>>, QtSame, FALSE) : n \in Names, m \in DependencyNames}
    \cup {PluginFile(n, S1100, <<Dependency(AbsentName, S190)>>, QtOtherMajor, FALSE) : n \in Names}
    \cup {PluginFile(n, S190, <<>>, QtSame, TRUE) : n \in Names}

Folders == {<<f>> : f \in Files}

\* The plugin files of the resolver specification: every dependency list of up
\* to MaxDependencies names, all versions compatible.
GraphFiles ==
    {PluginFile(n, S1100, d, QtSame, FALSE) :
        n \in Names, d \in SeqsUpTo({Dependency(m, S190) : m \in DependencyNames}, MaxDependencies)}

GraphFolders == {<<f>> : f \in GraphFiles}

\* The plugin files of the version specification: the first two names, either
\* version, every dependency list of up to MaxDependencies entries with either
\* minimum version.
VersionNames == {NameOrder[1], NameOrder[2]}

VersionFiles ==
    {PluginFile(n, v, d, QtSame, FALSE) :
        n \in VersionNames, v \in VersionStrings,
        d \in SeqsUpTo({Dependency(m, w) : m \in VersionNames, w \in VersionStrings}
                           \cup {Dependency(AbsentName, S190)},
                       MaxDependencies)}

VersionFolders == {<<f>> : f \in VersionFiles}

\* no file of the folder carries a name that is already in the search list
FreshNames(componentFolder) ==
    \A i \in DOMAIN componentFolder : componentFolder[i].MetaData.Name \notin DOMAIN m_componentSearchList

(***************************************************************************)
(* Specification                                                           *)
(***************************************************************************)
Init ==
    /\ heap = <<>>
    /\ m_componentSearchList = <<>>
    /\ m_loadOrder = <<>>
    /\ operations = <<>>
    /\ calls = <<>>
    /\ destroyed = FALSE
    /\ m_objectList = <<>>
    /\ registryOperations = <<>>

\* discovery is over when the host first calls loadComponents or unloadComponents
Discovering == operations = <<>>

Next ==
    \/ \E componentFolder \in Folders : Discovering /\ addComponents(componentFolder)
    \/ \E e \in Environments : loadComponents(e.loadFunction, e.pluginLoader)
    \/ unloadComponents
    \/ Destructor

Spec == Init /\ [][Next]_vars

\* The resolver specification: every plugin is discovered once, the host passes
\* no load function and every plugin file loads.
NextResolve ==
    \/ \E componentFolder \in GraphFolders :
           Discovering /\ FreshNames(componentFolder) /\ addComponents(componentFolder)
    \/ loadComponents(nullptr, AllLoaded)
    \/ unloadComponents
    \/ Destructor

SpecResolve == Init /\ [][NextResolve]_vars

\* The version specification: two plugins, discovered once each, with every
\* combination of versions and minimum versions.
NextVersions ==
    \/ \E componentFolder \in VersionFolders :
           Discovering /\ FreshNames(componentFolder) /\ addComponents(componentFolder)
    \/ \E e \in Environments : loadComponents(e.loadFunction, e.pluginLoader)
    \/ unloadComponents
    \/ Destructor

SpecVersions == Init /\ [][NextVersions]_vars

\* The plugin files of the session specification: the first two names, with no
\* dependency, with one dependency (on either name or an absent one) or built
\* against another Qt major version.
SessionFiles ==
    {PluginFile(n, S1100, <<>>, q, FALSE) : n \in VersionNames, q \in {QtSame, QtOtherMajor}}
    \cup {PluginFile(n, S1100, <<Dependency(m, S190)>>, QtSame, FALSE) :
              n \in VersionNames, m \in VersionNames \cup {AbsentName}}

SessionFolders == {<<f>> : f \in SessionFiles}

\* The session specification: the host calls the public operations in any
\* order, addComponents after loadComponents included.
NextSession ==
    \/ \E componentFolder \in SessionFolders : addComponents(componentFolder)
    \/ \E e \in Environments : loadComponents(e.loadFunction, e.pluginLoader)
    \/ unloadComponents
    \/ Destructor

SpecSession == Init /\ [][NextSession]_vars

\* The plugin files of the scenario specification: A without dependencies, B
\* that requires A >= 1.0 and C that requires B >= 1.0 and A >= 2.0, each at
\* version 1.0 or 2.0.
ScenarioA(v) == PluginFile(NameOrder[1], v, <<>>, QtSame, FALSE)

ScenarioB(v) == PluginFile(NameOrder[2], v, <<Dependency(NameOrder[1], S10)>>, QtSame, FALSE)

ScenarioC(v) ==
    PluginFile(NameOrder[3], v, <<Dependency(NameOrder[2], S10), Dependency(NameOrder[1], S20)>>, QtSame, FALSE)

ScenarioFiles == {ScenarioA(v) : v \in {S10, S20}} \cup {ScenarioB(v) : v \in {S10, S20}}
                     \cup {ScenarioC(v) : v \in {S10, S20}}

ScenarioFolders == {<<f>> : f \in ScenarioFiles}

NextScenario ==
    \/ \E componentFolder \in ScenarioFolders :
           Discovering /\ FreshNames(componentFolder) /\ addComponents(componentFolder)
    \/ \E e \in Environments : loadComponents(e.loadFunction, e.pluginLoader)
    \/ unloadComponents
    \/ Destructor

SpecScenario == Init /\ [][NextScenario]_vars

\* a plugin file whose metadata has a CanBeDisabled entry
WithCanBeDisabled(file, value) ==
    [file EXCEPT !.MetaData = [CanBeDisabled |-> value] @@ @]

QtVersions == {QtSame, QtOtherMinor, QtOtherPatch, QtOtherMajor, QtOlderMajor}

\* The plugin files of the metadata specification: the first two names, no
\* dependencies, built against five Qt versions, with no CanBeDisabled entry
\* or with either value of it.
MetadataFiles ==
    LET plain == {PluginFile(n, S1100, <<>>, q, FALSE) : n \in VersionNames, q \in QtVersions}
    IN  plain \cup {WithCanBeDisabled(f, b) : f \in plain, b \in BOOLEAN}

MetadataFolders == {<<f>> : f \in MetadataFiles}

NextMetadata ==
    \/ \E componentFolder \in MetadataFolders :
           Discovering /\ FreshNames(componentFolder) /\ addComponents(componentFolder)
    \/ \E e \in Environments : loadComponents(e.loadFunction, e.pluginLoader)
    \/ unloadComponents
    \/ Destructor

SpecMetadata == Init /\ [][NextMetadata]_vars

\* The single-load specification: discovery, one loadComponents call, then up
\* to MaxSessionUnloads unloadComponents calls and the destructor.
NextSingleLoad ==
    \/ \E componentFolder \in Folders : Discovering /\ addComponents(componentFolder)
    \/ \E e \in Environments : loadCalls = 0 /\ loadComponents(e.loadFunction, e.pluginLoader)
    \/ unloadComponentsUpTo(MaxSessionUnloads)
    \/ Destructor

SpecSingleLoad == Init /\ [][NextSingleLoad]_vars

\* The registry specification: the host and the components add and remove
\* objects in any order.
NextRegistry ==
    \/ \E object \in Objects : addObject(object)
    \/ \E object \in Objects : removeObject(object)

SpecRegistry == Init /\ [][NextRegistry]_vars

(***************************************************************************)
(* Selectors on the state and the history                                  *)
(***************************************************************************)
LoadOperations == {k \in DOMAIN operations : operations[k].operation = "loadComponents"}
UnloadOperations == DOMAIN operations \ LoadOperations

\* the components of a list of (plugin loader, component) pairs
Seconds(loadOrder) == [i \in DOMAIN loadOrder |-> loadOrder[i].second]

\* the components that operation k called the callback on, in call order
CalledOn(k, what) ==
    LET made == SelectSeq(calls, LAMBDA e : e.call = k /\ e.event = what)
    IN  [i \in DOMAIN made |-> made[i].component]

\* the positions in calls of the events of that kind made by operation k
Positions(k, what) == {i \in DOMAIN calls : calls[i].call = k /\ calls[i].event = what}

\* the resolved dependencies of a component
DependenciesOf(c) == Range(heap[c].m_dependencies)

RECURSIVE Closure(_)
Closure(S) ==
    LET T == S \cup UNION {DependenciesOf(c) : c \in S}
    IN  IF T = S THEN S ELSE Closure(T)

\* the components c depends on, directly or not
Descendants(c) == Closure(DependenciesOf(c))

\* the resolved dependencies form no cycle
Acyclic == \A c \in DOMAIN heap : c \notin Descendants(c)

(***************************************************************************)
(* C1.  For an acyclic dependency graph, the ordered list that             *)
(* loadComponents builds (resolve per root, then merge) has every record   *)
(* strictly after all of its resolved dependencies.                        *)
(***************************************************************************)
C1_DependenciesFirst ==
    \A k \in LoadOperations :
        LET list == operations[k].resolvedLoadList
        IN  Acyclic =>
                \A i \in DOMAIN list :
                    \A d \in DependenciesOf(list[i]) : \E j \in 1..(i - 1) : list[j] = d

\* three records in the list, one with two different dependencies, and the
\* list is not in name order
C1_Witness ==
    \E k \in LoadOperations :
        LET list == operations[k].resolvedLoadList
        IN  /\ Acyclic
            /\ Len(list) = Cardinality(Names)
            /\ list # components
            /\ \E c \in Range(list) : Cardinality(DependenciesOf(c)) > 1

(***************************************************************************)
(* C8.  For any dependency graph, cycles and self-dependencies included,   *)
(* the lookup and the resolver of loadComponents yield a list from every   *)
(* discovered set, and the merged ordered list holds every record that had *)
(* no flag after the dependency lookup, and holds no record twice.         *)
(***************************************************************************)
C8_EveryRecordOnce ==
    /\ Discovering =>
           \E found \in {FindDependencies([heap |-> heap, componentLoadList |-> <<>>],
                                           m_componentSearchList, Keys(m_componentSearchList), 1)} :
           \E loadList \in {ResolveLoadOrder(found.heap, found.componentLoadList, 1, <<>>)} :
               /\ NoDuplicates(loadList)
               /\ Range(found.componentLoadList) \subseteq Range(loadList)
    /\ \A k \in LoadOperations :
           /\ NoDuplicates(operations[k].resolvedLoadList)
           /\ Range(operations[k].componentLoadList) \subseteq Range(operations[k].resolvedLoadList)

\* every discovered record lies on a cycle, one of them depends on itself, one
\* has two different dependencies, and all are in the list
C8_Witness ==
    \E k \in LoadOperations :
        /\ Len(operations[k].componentLoadList) = Cardinality(Names)
        /\ Len(operations[k].resolvedLoadList) = Cardinality(Names)
        /\ \A c \in DOMAIN heap : c \in Descendants(c)
        /\ \E c \in DOMAIN heap : c \in DependenciesOf(c)
        /\ \E c \in DOMAIN heap : Cardinality(DependenciesOf(c)) > 1 /\ c \notin DependenciesOf(c)

(***************************************************************************)
(* C2.  After loadComponents, every record with loaded = true has all of   *)
(* its resolved dependencies loaded, each with an actual version that is   *)
(* not below the minimum the record holds for it in m_dependencyVersions.  *)
(***************************************************************************)
C2_LoadedDependencies ==
    \A c \in DOMAIN heap :
        heap[c].m_isLoaded =>
            \A d \in DependenciesOf(c) :
                /\ heap[d].m_isLoaded
                /\ ~VersionLess(version(heap, d), heap[c].m_dependencyVersions[d])

\* a loaded record with two dependency entries whose dependency is of a
\* higher version than the minimum asked for
C2_Witness ==
    \E c \in DOMAIN heap :
        /\ heap[c].m_isLoaded
        /\ Len(heap[c].m_dependencies) > 1
        /\ \E d \in DependenciesOf(c) : VersionLess(heap[c].m_dependencyVersions[d], version(heap, d))

(***************************************************************************)
(* C3.  The initialiseEvent calls of a loadComponents run are the          *)
(* completed components in resolved load order, its                        *)
(* initialisationFinishedEvent calls are the same components in reverse,   *)
(* and the finaliseEvent calls of an unload are the completed components   *)
(* in reverse.  The completed list is what the operation found completed   *)
(* on entry followed by the records of the resolved list it loaded.        *)
(***************************************************************************)
LoadedBy(k) ==
    SelectSeq(operations[k].resolvedLoadList,
              LAMBDA c : Loaded \in heap[c].m_loadFlags /\ ~Contains(Seconds(operations[k].before), c))

C3_CallbackOrder ==
    \A k \in DOMAIN operations :
        LET op == operations[k]
        IN  /\ op.before = IF k = 1 THEN <<>> ELSE operations[k - 1].after
            /\ IF k \in LoadOperations
               THEN /\ Seconds(op.after) = Seconds(op.before) \o LoadedBy(k)
                    /\ CalledOn(k, "initialiseEvent") = Seconds(op.after)
                    /\ CalledOn(k, "initialisationFinishedEvent") = Reverse(Seconds(op.after))
                    /\ CalledOn(k, "finaliseEvent") = <<>>
               ELSE /\ CalledOn(k, "finaliseEvent") = Reverse(Seconds(op.before))
                    /\ CalledOn(k, "initialiseEvent") = <<>>
                    /\ CalledOn(k, "initialisationFinishedEvent") = <<>>

\* a load that completed two components or more, in an order that is not the
\* name order, and skipped at least one record of the resolved list, followed
\* by an unload
C3_Witness ==
    \E k \in LoadOperations :
        /\ k + 1 \in UnloadOperations
        /\ Len(operations[k].after) > 1
        /\ Len(operations[k].after) < Len(operations[k].resolvedLoadList)
        /\ \E i \in DOMAIN components :
               /\ i <= Len(operations[k].after)
               /\ components[i] # operations[k].after[i].second

(***************************************************************************)
(* C4.  When initialiseEvent is called on a completed component, it has    *)
(* already been called, in the same run, on every resolved dependency of   *)
(* the component, and each of these is itself a completed component.       *)
(***************************************************************************)
C4_DependenciesInitialisedFirst ==
    \A i \in DOMAIN calls :
        calls[i].event = "initialiseEvent" =>
            \A d \in DependenciesOf(calls[i].component) :
                /\ Contains(Seconds(operations[calls[i].call].after), d)
                /\ \E j \in 1..(i - 1) :
                       calls[j] = Event(calls[i].call, "initialiseEvent", d)

\* initialiseEvent on a component whose dependency has a dependency of its own
C4_Witness ==
    \E i \in DOMAIN calls :
        /\ calls[i].event = "initialiseEvent"
        /\ \E d \in DependenciesOf(calls[i].component) : DependenciesOf(d) # {}

(***************************************************************************)
(* C5.  During an unload, finaliseEvent is not called on a component       *)
(* before it has been called on every completed component that depends on  *)
(* it.                                                                     *)
(***************************************************************************)
C5_DependentsFinalisedFirst ==
    \A i \in DOMAIN calls :
        calls[i].event = "finaliseEvent" =>
            \A x \in Range(Seconds(operations[calls[i].call].before)) :
                calls[i].component \in DependenciesOf(x) =>
                    \E j \in 1..(i - 1) : calls[j] = Event(calls[i].call, "finaliseEvent", x)

\* finaliseEvent on a component that a completed component depends on
C5_Witness ==
    \E i \in DOMAIN calls :
        /\ calls[i].event = "finaliseEvent"
        /\ \E x \in Range(Seconds(operations[calls[i].call].before)) :
               calls[i].component \in DependenciesOf(x)

(***************************************************************************)
(* C6.  During teardown no plugin loader is released before finaliseEvent  *)
(* has been called on every completed component: within one unload, every  *)
(* finaliseEvent call precedes every release.                              *)
(***************************************************************************)
C6_FinaliseBeforeRelease ==
    \A k \in UnloadOperations :
        \A i \in Positions(k, "delete"), j \in Positions(k, "finaliseEvent") : j < i

(***************************************************************************)
(* C7.  The phases of one loadComponents run do not overlap: every load    *)
(* function call, backend load attempt and release of a failed loader      *)
(* precedes the first initialiseEvent, and every initialiseEvent precedes  *)
(* the first initialisationFinishedEvent.                                  *)
(***************************************************************************)
C7_PhasesDoNotOverlap ==
    \A k \in LoadOperations :
        /\ \A a \in Positions(k, "loadFunction") \cup Positions(k, "load") \cup Positions(k, "delete"),
              b \in Positions(k, "initialiseEvent") : a < b
        /\ \A b \in Positions(k, "initialiseEvent"),
              c \in Positions(k, "initialisationFinishedEvent") : b < c

\* a run with a failed load attempt and two components initialised
C7_Witness ==
    \E k \in LoadOperations :
        /\ Positions(k, "delete") # {}
        /\ Cardinality(Positions(k, "initialiseEvent")) > 1
        /\ Cardinality(Positions(k, "initialisationFinishedEvent")) > 1

(***************************************************************************)
(* C9.  After loadComponents, every record that declares a dependency name *)
(* absent from the discovered set carries MissingDependency and is not     *)
(* Loaded.                                                                 *)
(***************************************************************************)
\* the record declares a dependency name that is not in the search list
DeclaresAbsent(c) ==
    \E i \in DOMAIN heap[c].m_metadata.MetaData.Dependencies :
        heap[c].m_metadata.MetaData.Dependencies[i].Name \notin DOMAIN m_componentSearchList

DiscoveryFlags == {IncompatibleQtVersion, NameClash}

HasLoadedOlderDependency(c) ==
    \E d \in DependenciesOf(c) :
        heap[d].m_isLoaded /\ VersionLess(version(heap, d), heap[c].m_dependencyVersions[d])

\* the claim as stated
C10_OlderDependencyFlagged ==
    \A c \in DOMAIN heap :
        HasLoadedOlderDependency(c) => IncompatibleVersion \in heap[c].m_loadFlags

\* C10 as amended: for the records that declare no absent dependency name
C10_OlderDependencyFlaggedUnlessAbsentName ==
    \A c \in DOMAIN heap :
        (HasLoadedOlderDependency(c) /\ heap[c].m_missingDependencies = <<>>) =>
            IncompatibleVersion \in heap[c].m_loadFlags

\* a record whose only flag is IncompatibleVersion
C10_Witness ==
    \E c \in DOMAIN heap :
        /\ HasLoadedOlderDependency(c)
        /\ heap[c].m_missingDependencies = <<>>
        /\ heap[c].m_loadFlags = {IncompatibleVersion}

(***************************************************************************)
(* C11.  In every state no record has the Loaded flag, or loaded = true,   *)
(* together with a failure flag; a step never sets Loaded on a record that *)
(* has a failure flag and never adds a failure flag to a Loaded record.    *)
(***************************************************************************)
HasFailure(object) == object.m_loadFlags \cap FailureFlags # {}

IsLoaded(object) == Loaded \in object.m_loadFlags \/ object.m_isLoaded

C11_LoadedExcludesFailure ==
    /\ [](\A c \in DOMAIN heap : ~(IsLoaded(heap[c]) /\ HasFailure(heap[c])))
    /\ [][\A c \in DOMAIN heap :
             /\ HasFailure(heap[c]) => ~IsLoaded(heap'[c])
             /\ IsLoaded(heap[c]) => ~HasFailure(heap'[c])]_vars

\* a record that the load function rejected in an earlier run is in the ordered
\* list of a later run, which does not ask the load function about it again
C11_Witness ==
    \E k \in LoadOperations :
        \E c \in Range(operations[k].resolvedLoadList) :
            /\ Disabled \in heap[c].m_loadFlags
            /\ \E j \in LoadOperations : j < k /\ c \in Range(CalledOn(j, "loadFunction"))
            /\ c \notin Range(CalledOn(k, "loadFunction"))
            /\ Len(operations[k].resolvedLoadList) > 1

(***************************************************************************)
(* C12.  Status flags are append-only: no step of addComponents,           *)
(* loadComponents, unloadComponents or the destructor clears a flag that   *)
(* is set on a record.                                                     *)
(***************************************************************************)
C12_FlagsOnlyGrow ==
    [][\A c \in DOMAIN heap : heap[c].m_loadFlags \subseteq heap'[c].m_loadFlags]_vars

\* after an unload a component it unloaded still carries Loaded, and another
\* record carries two flags
C12_Witness ==
    /\ \E k \in UnloadOperations :
           \E c \in Range(Seconds(operations[k].before)) : Loaded \in heap[c].m_loadFlags
    /\ \E c \in DOMAIN heap : Cardinality(heap[c].m_loadFlags) > 1

(***************************************************************************)
(* C13.  When two records are discovered with the same name the second is  *)
(* flagged NameClash and kept out of the search list: the first-registered *)
(* record stays in the search list, unflagged by the clash, and is the one *)
(* that dependency names resolve to.                                       *)
(***************************************************************************)
\* the records created with the name, in order of creation
First(name) == <<name, 0>>

Later(name) == {c \in DOMAIN heap : c[1] = name /\ c[2] > 0}

C13_FirstRegisteredWins ==
    \A name \in Names :
        Later(name) # {} =>
            /\ \A c \in Later(name) : NameClash \in heap[c].m_loadFlags
            /\ m_componentSearchList[name] = First(name)
            /\ NameClash \notin heap[First(name)].m_loadFlags
            /\ \A c \in DOMAIN heap : \A d \in DependenciesOf(c) : d[1] = name => d = First(name)

(***************************************************************************)
(* C14.  components() returns every record that the addComponents calls so *)
(* far have created, those that could not be loaded included: no           *)
(* discovered record is dropped from the list.                             *)
(***************************************************************************)
C14_NoRecordDropped == Range(components) = DOMAIN heap

(***************************************************************************)
(* C15.  Scenario: A (no dependencies, version 1.0), B (requires A >= 1.0) *)
(* and C (requires B >= 1.0 and A >= 2.0) are discovered, the load         *)
(* function accepts and the backend succeeds for all of them.  Then the    *)
(* resolved order is [A, B, C], A and B are Loaded, C carries              *)
(* IncompatibleVersion and is not loaded, and initialiseEvent is called on *)
(* A, then on B, and on nothing else.                                      *)
(***************************************************************************)
FaultFlags == {Disabled, UnableToLoad, MissingInterface}

\* the three records of the scenario are what was discovered, and no record
\* was rejected by the load function or failed in the backend
ScenarioDiscovered ==
    /\ DOMAIN heap = {First(n) : n \in Names}
    /\ heap[First(NameOrder[1])].m_metadata = ScenarioA(S10)
    /\ heap[First(NameOrder[2])].m_metadata = ScenarioB(S10)
    /\ heap[First(NameOrder[3])].m_metadata = ScenarioC(S10)
    /\ \A c \in DOMAIN heap : heap[c].m_loadFlags \cap FaultFlags = {}

FirstLoad == CHOOSE k \in LoadOperations : \A j \in LoadOperations : k <= j

C15_Scenario ==
    (ScenarioDiscovered /\ LoadOperations # {}) =>
        LET a == First(NameOrder[1])
            b == First(NameOrder[2])
            c == First(NameOrder[3])
        IN  /\ operations[FirstLoad].resolvedLoadList = <<a, b, c>>
            /\ heap[a].m_loadFlags = {Loaded} /\ heap[a].m_isLoaded
            /\ heap[b].m_loadFlags = {Loaded} /\ heap[b].m_isLoaded
            /\ heap[c].m_loadFlags = {IncompatibleVersion} /\ ~heap[c].m_isLoaded
            /\ Seconds(operations[FirstLoad].after) = <<a, b>>
            /\ CalledOn(FirstLoad, "initialiseEvent") = <<a, b>>

\* the scenario has been loaded with a load function that accepted A and B
C15_Witness ==
    /\ ScenarioDiscovered
    /\ LoadOperations # {}
    /\ CalledOn(FirstLoad, "loadFunction") = <<First(NameOrder[1]), First(NameOrder[2])>>
    /\ CalledOn(FirstLoad, "load") = <<First(NameOrder[1]), First(NameOrder[2])>>

(***************************************************************************)
(* C16.  Failures are local.  After loadComponents, a record of the search *)
(* list that has no discovery flag, whose declared dependencies are all    *)
(* found and loaded with a sufficient version, that the load function did  *)
(* not reject and whose backend load and interface check did not fail, is  *)
(* Loaded, whichever other records failed: a failure does not end the      *)
(* processing of the records after it in the ordered list.                 *)
(***************************************************************************)
Declared(c) == heap[c].m_metadata.MetaData.Dependencies

DeclaredSatisfied(c) ==
    \A i \in DOMAIN Declared(c) :
        /\ Declared(c)[i].Name \in DOMAIN m_componentSearchList
        /\ LET dependency == m_componentSearchList[Declared(c)[i].Name]
           IN  /\ isLoaded(heap, dependency)
               /\ ~VersionLess(version(heap, dependency), fromString(Declared(c)[i].Version))

C16_FailuresAreLocal ==
    LoadOperations # {} =>
        \A c \in Range(components) :
            (/\ heap[c].m_loadFlags \cap DiscoveryFlags = {}
             /\ DeclaredSatisfied(c)
             /\ heap[c].m_loadFlags \cap FaultFlags = {})
                => /\ heap[c].m_loadFlags = {Loaded}
                   /\ isLoaded(heap, c)
                   /\ \E k \in LoadOperations : c \in Range(Seconds(operations[k].after))

\* a run in which a record was rejected or failed in the backend and a record
\* after it in the ordered list, with a loaded dependency, was loaded
C16_Witness ==
    \E k \in LoadOperations :
        \E i, j \in DOMAIN operations[k].resolvedLoadList :
            /\ i < j
            /\ heap[operations[k].resolvedLoadList[i]].m_loadFlags \cap FaultFlags # {}
            /\ operations[k].resolvedLoadList[j] \in Range(Seconds(operations[k].after))
            /\ Declared(operations[k].resolvedLoadList[j]) # <<>>

(***************************************************************************)
(* C17.  Host-level misuse, that is a loadComponents before any discovery  *)
(* or a loadComponents after an earlier loadComponents, is signalled to    *)
(* the host as a fatal condition of its own.  loadComponents returns       *)
(* nothing and the loader keeps no error state, so a misuse that is        *)
(* detected can only show as a call that is not carried out: it calls no   *)
(* load function, backend or callback and leaves m_loadOrder as it was.    *)
(***************************************************************************)
Misuse(k) ==
    /\ k \in LoadOperations
    /\ \/ DOMAIN heap = {}
       \/ \E j \in LoadOperations : j < k

CallsOf(k) == {i \in DOMAIN calls : calls[i].call = k}

C17_MisuseRefused ==
    \A k \in LoadOperations :
        Misuse(k) => CallsOf(k) = {} /\ operations[k].after = operations[k].before

(***************************************************************************)
(* C18.  The loaded components never contain a dependency cycle: a record  *)
(* that lies on a cycle of resolved dependencies, a record that depends on *)
(* itself included, is never loaded and never appended to m_loadOrder.     *)
(***************************************************************************)
OnCycle(c) == c \in Descendants(c)

C18_NoLoadedCycle ==
    \A c \in DOMAIN heap :
        OnCycle(c) =>
            /\ ~IsLoaded(heap[c])
            /\ \A k \in DOMAIN operations : c \notin Range(Seconds(operations[k].after))

\* two records that depend on each other, and not on themselves, are in the
\* ordered list of a run that loaded a third record
C18_Witness ==
    \E k \in LoadOperations :
        /\ \E c, d \in Range(operations[k].resolvedLoadList) :
               /\ c # d
               /\ d \in DependenciesOf(c) /\ c \in DependenciesOf(d)
               /\ c \notin DependenciesOf(c) /\ d \notin DependenciesOf(d)
               /\ heap[c].m_loadFlags = {MissingDependency}
               /\ heap[d].m_loadFlags = {MissingDependency}
        /\ operations[k].after # <<>>

(***************************************************************************)
(* C19.  In every state every resolved dependency edge of every record     *)
(* points to a record that components() returns, and a declared name that  *)
(* is recorded as missing has produced no edge.                            *)
(***************************************************************************)
C19_EdgesStayInDiscoveredSet ==
    \A c \in DOMAIN heap :
        /\ DependenciesOf(c) \subseteq Range(components)
        /\ \A d \in DependenciesOf(c) : heap[d].m_name \notin Range(missingDependencies(heap, c))

(***************************************************************************)
(* C20.  A record that carries a flag at the end of the dependency lookup, *)
(* a discovery flag or MissingDependency for a name that was not found, is *)
(* never added to the ordered list, not even as a dependency of a record   *)
(* without flag, and so the load loop never comes to it.                   *)
(***************************************************************************)
\* the records of the search list that the lookup leaves with a flag
FlaggedAtLookup(c) ==
    /\ c \in Range(components)
    /\ heap[c].m_loadFlags \cap DiscoveryFlags # {} \/ DeclaresAbsent(c)

\* the claim as stated
C20_FlaggedNeverListed ==
    \A k \in LoadOperations :
        \A c \in DOMAIN heap : FlaggedAtLookup(c) => c \notin Range(operations[k].resolvedLoadList)

\* C20 as amended: a record flagged at the end of the lookup is never a root of
\* the resolution; it is in the ordered list only where a record without flag
\* reaches it through resolved dependencies, and there the load loop passes
\* over it: it is not validated, not offered to the load function, not loaded
C20_FlaggedListedOnlyAsDependency ==
    \A k \in LoadOperations :
        \A c \in DOMAIN heap :
            FlaggedAtLookup(c) =>
                /\ c \notin Range(operations[k].componentLoadList)
                /\ c \in Range(operations[k].resolvedLoadList) =>
                       \E r \in Range(operations[k].componentLoadList) : c \in Descendants(r)
                /\ \A i \in CallsOf(k) : calls[i].component # c
                /\ ~IsLoaded(heap[c])
                /\ heap[c].m_loadFlags \cap ({IncompatibleVersion} \cup FaultFlags) = {}

\* a record flagged at the end of the lookup is in the ordered list of a run
\* that has loaded another record
C20_Witness ==
    \E k \in LoadOperations :
        /\ \E c \in Range(operations[k].resolvedLoadList) : FlaggedAtLookup(c)
        /\ operations[k].after # operations[k].before

(***************************************************************************)
(* C21.  After loadComponents the missingDependencies() list of a record   *)
(* consists of exactly the dependency names the record declared that have  *)
(* no record in the discovered set.                                        *)
(***************************************************************************)
\* the declared names that are not in the search list, in declaration order
DeclaredAbsent(c) ==
    LET absent == SelectSeq(Declared(c), LAMBDA d : d.Name \notin DOMAIN m_componentSearchList)
    IN  [i \in DOMAIN absent |-> absent[i].Name]

Validated(c) ==
    /\ LoadOperations # {}
    /\ c \in Range(components)
    /\ heap[c].m_loadFlags \cap DiscoveryFlags = {}
    /\ ~DeclaresAbsent(c)

HasUnloadedDependency(c) == \E d \in DependenciesOf(c) : ~heap[d].m_isLoaded

C22_EveryDependencyValidated ==
    \A c \in DOMAIN heap :
        Validated(c) =>
            /\ MissingDependency \in heap[c].m_loadFlags <=> HasUnloadedDependency(c)
            /\ IncompatibleVersion \in heap[c].m_loadFlags <=> HasLoadedOlderDependency(c)

\* a record with a dependency that is not loaded, declared first, and one that
\* is loaded but too old carries both flags
C22_Witness ==
    \E c \in DOMAIN heap :
           /\ Validated(c)
           /\ Len(heap[c].m_dependencies) = 2
           /\ ~heap[heap[c].m_dependencies[1]].m_isLoaded
           /\ HasLoadedOlderDependency(c)
           /\ heap[c].m_loadFlags = {MissingDependency, IncompatibleVersion}

(***************************************************************************)
(* C23.  The load function is asked, and the plugin is loaded, only in     *)
(* this order and only for eligible records: the load function is asked    *)
(* only about a record that has no flag after validateDependencies, the    *)
(* plugin is loaded only for a record that the load function accepted, and *)
(* a record that the load function rejects gets exactly Disabled and its   *)
(* plugin is never loaded.                                                 *)
(***************************************************************************)
ValidationFlags == DiscoveryFlags \cup {MissingDependency, IncompatibleVersion}

\* the positions in calls of the calls of kind what on component c
EventsOn(what, c) == {i \in DOMAIN calls : calls[i].event = what /\ calls[i].component = c}

\* the run that makes call i asks a load function
AsksLoadFunction(k) == \E i \in CallsOf(k) : calls[i].event = "loadFunction"

C23_PolicyThenBackend ==
    /\ \A i \in DOMAIN calls :
           LET c == calls[i].component
           IN  /\ calls[i].event = "loadFunction" =>
                      /\ heap[c].m_loadFlags \cap ValidationFlags = {}
                      /\ EventsOn("loadFunction", c) = {i}
               /\ calls[i].event = "load" =>
                      /\ heap[c].m_loadFlags \cap (ValidationFlags \cup {Disabled}) = {}
                      /\ EventsOn("load", c) = {i}
                      /\ AsksLoadFunction(calls[i].call) =>
                             /\ i > 1
                             /\ calls[i - 1] = Event(calls[i].call, "loadFunction", c)
    /\ \A c \in DOMAIN heap :
           Disabled \in heap[c].m_loadFlags =>
               /\ heap[c].m_loadFlags = {Disabled}
               /\ ~heap[c].m_isLoaded
               /\ EventsOn("loadFunction", c) # {}
               /\ EventsOn("load", c) = {}

\* one run in which the load function rejected a record, was not asked about a
\* record that validateDependencies had flagged, and accepted a record whose
\* plugin was then loaded
C23_Witness ==
    \E k \in LoadOperations :
        /\ \E c \in Range(operations[k].resolvedLoadList) :
               heap[c].m_loadFlags = {Disabled} /\ EventsOn("loadFunction", c) \subseteq CallsOf(k)
        /\ \E c \in Range(operations[k].resolvedLoadList) :
               heap[c].m_loadFlags = {MissingDependency} /\ ~DeclaresAbsent(c)
        /\ \E c \in Range(operations[k].resolvedLoadList) :
               /\ heap[c].m_loadFlags = {Loaded}
               /\ EventsOn("loadFunction", c) # {}
               /\ EventsOn("load", c) \subseteq CallsOf(k)

(***************************************************************************)
(* C24.  When loadComponents is called without a load function (nullptr)   *)
(* every record is treated as accepted: from any discovered set and        *)
(* whatever the plugin loaders do, the run sets Disabled on no record.     *)
(***************************************************************************)
\* the component objects after loadComponents(nullptr) with the given plugin
\* loader outcomes, run in the current state
HeapAfterLoad(loadFunction, pluginLoader) ==
    Let(FindDependencies([heap |-> heap, componentLoadList |-> <<>>],
                         m_componentSearchList, Keys(m_componentSearchList), 1),
        LAMBDA found :
            LoadLoop([heap |-> found.heap, loadOrder |-> m_loadOrder, calls |-> calls],
                     ResolveLoadOrder(found.heap, found.componentLoadList, 1, <<>>),
                     1, loadFunction, pluginLoader, ThisCall).heap)

C24_NullLoadFunctionAccepts ==
    /\ Discovering =>
           \A pluginLoader \in PluginLoaders :
               \A c \in DOMAIN heap :
                   Disabled \notin HeapAfterLoad(nullptr, pluginLoader)[c].m_loadFlags
    /\ \A k \in LoadOperations :
           ~AsksLoadFunction(k) =>
               \A c \in Range(operations[k].resolvedLoadList) :
                   Disabled \in heap[c].m_loadFlags => EventsOn("loadFunction", c) # {}

\* a run without load function calls has loaded two plugins, and no record is
\* Disabled
C24_Witness ==
    \E k \in LoadOperations :
        /\ ~AsksLoadFunction(k)
        /\ Len(CalledOn(k, "load")) > 1
        /\ \A c \in DOMAIN heap : Disabled \notin heap[c].m_loadFlags

(***************************************************************************)
(* C25.  A record whose plugin fails to load gets UnableToLoad, and a      *)
(* record whose instance is no IComponent gets MissingInterface and has    *)
(* its plugin loader released.  In both cases the record is not appended   *)
(* to m_loadOrder, is not loaded, and no lifecycle callback is ever called *)
(* on it.                                                                  *)
(***************************************************************************)
BackendFlags == {UnableToLoad, MissingInterface}

LifecycleEvents == {"initialiseEvent", "initialisationFinishedEvent", "finaliseEvent"}

\* the plugin loader outcomes in which the plugin of the name ends as outcome
FailingAs(name, outcome) == [n \in Names |-> IF n = name THEN outcome ELSE "loaded"]

\* the load of a validated record c whose plugin ends as outcome sets flag,
\* releases the plugin loader and appends nothing
BackendFailure(c, outcome, flag) ==
    LET st == [heap |-> heap, loadOrder |-> m_loadOrder, calls |-> calls]
        done == LoadValidated(st, heap, c, nullptr, FailingAs(heap[c].m_name, outcome), ThisCall)
    IN  /\ done.heap[c].m_loadFlags = {flag}
        /\ ~done.heap[c].m_isLoaded
        /\ done.loadOrder = m_loadOrder
        /\ done.calls = calls \o <<Event(ThisCall, "load", c), Event(ThisCall, "delete", c)>>

C25_BackendFailure ==
    /\ \A c \in DOMAIN heap :
           heap[c].m_loadFlags = {} =>
               /\ BackendFailure(c, "loadFailed", UnableToLoad)
               /\ BackendFailure(c, "noInterface", MissingInterface)
    /\ \A c \in DOMAIN heap :
           heap[c].m_loadFlags \cap BackendFlags # {} =>
               /\ Cardinality(heap[c].m_loadFlags) = 1
               /\ ~heap[c].m_isLoaded
               /\ c \notin Range(Seconds(m_loadOrder))
               /\ \A k \in DOMAIN operations :
                      c \notin Range(Seconds(operations[k].before)) \cup Range(Seconds(operations[k].after))
               /\ \A what \in LifecycleEvents : EventsOn(what, c) = {}
               /\ \E i \in EventsOn("load", c) :
                      i < Len(calls) /\ calls[i + 1] = Event(calls[i].call, "delete", c)
    /\ \A i \in DOMAIN calls :
           calls[i].event = "load" =>
               \/ heap[calls[i].component].m_loadFlags = {Loaded}
               \/ heap[calls[i].component].m_loadFlags \cap BackendFlags # {}

\* a record carries MissingInterface, another one was loaded in the same run,
\* and the loader has since been unloaded
C25_Witness ==
    /\ \E c \in DOMAIN heap : heap[c].m_loadFlags = {MissingInterface}
    /\ \E k \in UnloadOperations : CallsOf(k) # {}

(***************************************************************************)
(* C26.  When loadComponents returns, m_loadOrder is a subsequence of the  *)
(* resolved load list and holds, once each, exactly the records that carry *)
(* Loaded; for every record isLoaded() is true exactly when its flags      *)
(* contain Loaded.  (loadComponents is run once; what a run appends is     *)
(* stated for every run.)                                                  *)
(***************************************************************************)
\* s has no duplicates and its elements occur in t in the same order
IsSubsequence(s, t) ==
    /\ NoDuplicates(s)
    /\ Range(s) \subseteq Range(t)
    /\ \A i, j \in DOMAIN s : i < j => IndexOf(t, s[i]) < IndexOf(t, s[j])

\* the pairs that load operation k appended to m_loadOrder
AppendedBy(k) ==
    SubSeq(operations[k].after, Len(operations[k].before) + 1, Len(operations[k].after))

CarryLoaded == {c \in DOMAIN heap : Loaded \in heap[c].m_loadFlags}

C26_LoadOrderIsLoadedSet ==
    /\ \A k \in LoadOperations :
           /\ Len(operations[k].before) <= Len(operations[k].after)
           /\ operations[k].after = operations[k].before \o AppendedBy(k)
           /\ IsSubsequence(Seconds(AppendedBy(k)), operations[k].resolvedLoadList)
           /\ NoDuplicates(Seconds(operations[k].after))
    /\ Cardinality(LoadOperations) = 1 =>
           /\ IsSubsequence(Seconds(operations[FirstLoad].after), operations[FirstLoad].resolvedLoadList)
           /\ Range(Seconds(operations[FirstLoad].after)) = CarryLoaded
    /\ \A c \in DOMAIN heap : isLoaded(heap, c) <=> Loaded \in heap[c].m_loadFlags

\* the one run has returned with two loaded records, in the order of the
\* resolved list, and a third record of the list that was not loaded
C26_Witness ==
    /\ Cardinality(LoadOperations) = 1
    /\ Len(operations[FirstLoad].after) = 2
    /\ m_loadOrder = operations[FirstLoad].after
    /\ \E c \in Range(operations[FirstLoad].resolvedLoadList) : Loaded \notin heap[c].m_loadFlags

(***************************************************************************)
(* C27.  IncompatibleVersion is decided by comparing the version of the    *)
(* dependency with the required minimum number by number, major, then      *)
(* minor, then patch: a validated record has the flag exactly when one of  *)
(* its loaded dependencies is below the minimum.  A version equal to the   *)
(* minimum is compatible and 1.10.0 satisfies a minimum of 1.9.0.          *)
(***************************************************************************)
\* major, then minor, then patch, of two versions of three numbers
SegmentLess(a, b) ==
    \/ a[1] < b[1]
    \/ a[1] = b[1] /\ a[2] < b[2]
    \/ a[1] = b[1] /\ a[2] = b[2] /\ a[3] < b[3]

\* c has a loaded dependency below the minimum c holds for it
BelowMinimum(c) ==
    \E d \in DependenciesOf(c) :
        heap[d].m_isLoaded /\ SegmentLess(version(heap, d), heap[c].m_dependencyVersions[d])

C27_SegmentWiseMinimum ==
    /\ fromString(S190) = <<1, 9, 0>>
    /\ fromString(S1100) = <<1, 10, 0>>
    /\ \A v, w \in VersionStrings :
           VersionLess(fromString(v), fromString(w)) <=> SegmentLess(fromString(v), fromString(w))
    /\ \A c \in DOMAIN heap :
           Validated(c) => (IncompatibleVersion \in heap[c].m_loadFlags <=> BelowMinimum(c))

\* a loaded record whose dependency is at 1.10.0 and required at 1.9.0 or more
C27_Witness ==
    \E c \in DOMAIN heap :
        /\ Validated(c)
        /\ heap[c].m_isLoaded
        /\ \E d \in DependenciesOf(c) :
               /\ version(heap, d) = <<1, 10, 0>>
               /\ heap[c].m_dependencyVersions[d] = <<1, 9, 0>>

(***************************************************************************)
(* C28.  At discovery a record is flagged IncompatibleQtVersion exactly    *)
(* when the major number of the packed Qt version of its file (bits 16 and *)
(* above) differs from the major number of the Qt of the application; a    *)
(* difference in the minor (bits 8-15) or patch (bits 0-7) number alone    *)
(* never sets the flag.                                                    *)
(***************************************************************************)
\* the packed Qt version of the file of c
PackedQt(c) == heap[c].m_metadata.version

\* the packed values with the major number of the application's Qt
SameMajor == (applicationQtVersion[1] * 65536)..(applicationQtVersion[1] * 65536 + 65535)

C28_QtMajorDecides ==
    /\ \A c \in DOMAIN heap :
           IncompatibleQtVersion \in heap[c].m_loadFlags <=> PackedQt(c) \notin SameMajor
    /\ \A c \in DOMAIN heap :
           PackedQt(c) \in {QtOtherMinor, QtOtherPatch} => IncompatibleQtVersion \notin heap[c].m_loadFlags
    /\ {QtOtherMinor, QtOtherPatch} \subseteq SameMajor \ {QtSame}
    /\ {QtOtherMajor, QtOlderMajor} \cap SameMajor = {}

\* a plugin built against another Qt minor version was loaded, next to a
\* plugin that is flagged for its Qt major version
C28_Witness ==
    /\ \E c \in DOMAIN heap : PackedQt(c) = QtOtherMinor /\ heap[c].m_loadFlags = {Loaded}
    /\ \E c \in DOMAIN heap : PackedQt(c) = QtOlderMajor /\ heap[c].m_loadFlags = {IncompatibleQtVersion}

(***************************************************************************)
(* C29.  The loader does not consult canBeDisabled(): a record whose       *)
(* metadata says it cannot be disabled is processed like any other, so     *)
(* when the load function returns false for it, it gets Disabled and is    *)
(* not loaded.  canBeDisabled() is true when the metadata has no           *)
(* CanBeDisabled entry.                                                    *)
(***************************************************************************)
\* a load function that returns false for every component
RejectAll == [null |-> FALSE, accepts |-> [n \in Names |-> FALSE]]

HasCanBeDisabled(c) == "CanBeDisabled" \in DOMAIN heap[c].m_metadata.MetaData

\* the load of the validated record c when the load function returns false
Rejected(c) ==
    LoadValidated([heap |-> heap, loadOrder |-> m_loadOrder, calls |-> calls],
                  heap, c, RejectAll, AllLoaded, ThisCall)

C29_CanBeDisabledNotConsulted ==
    /\ \A c \in DOMAIN heap :
           /\ ~HasCanBeDisabled(c) => canBeDisabled(heap, c)
           /\ HasCanBeDisabled(c) => canBeDisabled(heap, c) = heap[c].m_metadata.MetaData.CanBeDisabled
    /\ \A c \in DOMAIN heap :
           heap[c].m_loadFlags = {} =>
               /\ Rejected(c).heap[c].m_loadFlags = {Disabled}
               /\ ~Rejected(c).heap[c].m_isLoaded
               /\ Rejected(c).loadOrder = m_loadOrder
               /\ Rejected(c).calls = Append(calls, Event(ThisCall, "loadFunction", c))
    /\ \A c \in DOMAIN heap :
           Disabled \in heap[c].m_loadFlags =>
               /\ heap[c].m_loadFlags = {Disabled}
               /\ ~heap[c].m_isLoaded
               /\ EventsOn("load", c) = {}
               /\ EventsOn("loadFunction", c) # {}
               /\ \A k \in DOMAIN operations : c \notin Range(Seconds(operations[k].after))

\* a record whose metadata says it cannot be disabled was rejected by the
\* load function and is Disabled, while the other record was loaded
C29_Witness ==
    /\ \E c \in DOMAIN heap :
           /\ HasCanBeDisabled(c)
           /\ ~canBeDisabled(heap, c)
           /\ heap[c].m_loadFlags = {Disabled}
    /\ \E c \in DOMAIN heap : ~HasCanBeDisabled(c) /\ heap[c].m_loadFlags = {Loaded}

(***************************************************************************)
(* C30.  In a session with one loadComponents call, every component of     *)
(* m_loadOrder gets initialiseEvent once, then initialisationFinishedEvent *)
(* once, and finaliseEvent at most once: the first unloadComponents (or    *)
(* the destructor) after the load calls finaliseEvent once on each and     *)
(* clears m_loadOrder, and every later unloadComponents, and the           *)
(* destructor after an unloadComponents, calls nothing and deletes no      *)
(* plugin loader.                                                          *)
(***************************************************************************)
\* the components the one loadComponents call loaded
Completed == IF LoadOperations = {} THEN {} ELSE Range(Seconds(operations[FirstLoad].after))

\* the unloadComponents calls and destructor runs after the load
Teardowns == {k \in UnloadOperations : LoadOperations # {} /\ k > FirstLoad}

FirstTeardown == CHOOSE k \in Teardowns : \A j \in Teardowns : k <= j

\* the one position in calls of the event what on c
TheEvent(what, c) == CHOOSE i \in EventsOn(what, c) : TRUE

C30_LifecycleOnce ==
    /\ Cardinality(LoadOperations) <= 1
    /\ \A c \in DOMAIN heap : \A what \in LifecycleEvents :
           c \notin Completed => EventsOn(what, c) = {}
    /\ \A c \in Completed :
           /\ Cardinality(EventsOn("initialiseEvent", c)) = 1
           /\ Cardinality(EventsOn("initialisationFinishedEvent", c)) = 1
           /\ TheEvent("initialiseEvent", c) < TheEvent("initialisationFinishedEvent", c)
           /\ Cardinality(EventsOn("finaliseEvent", c)) <= 1
           /\ \A i \in EventsOn("finaliseEvent", c) : TheEvent("initialisationFinishedEvent", c) < i
    /\ \A k \in UnloadOperations \ Teardowns : CallsOf(k) = {}
    /\ Teardowns # {} =>
           /\ m_loadOrder = <<>>
           /\ operations[FirstTeardown].after = <<>>
           /\ \A c \in Completed :
                  /\ Cardinality(EventsOn("finaliseEvent", c)) = 1
                  /\ calls[TheEvent("finaliseEvent", c)].call = FirstTeardown
                  /\ Cardinality({i \in EventsOn("delete", c) : calls[i].call = FirstTeardown}) = 1
           /\ \A k \in Teardowns \ {FirstTeardown} : CallsOf(k) = {}

\* two components were loaded, then unloadComponents ran twice and the
\* destructor after them
C30_Witness ==
    /\ Cardinality(Completed) = 2
    /\ Cardinality(Teardowns) = 3
    /\ operations[FirstTeardown].operation = "unloadComponents"
    /\ destroyed

(***************************************************************************)
(* C31.  A loadComponents call that follows an earlier one, with no        *)
(* discovery in between, changes the flags and m_isLoaded of no record and *)
(* attempts no plugin load, every record being flagged (Loaded included)   *)
(* and skipped; it calls initialiseEvent and then                          *)
(* initialisationFinishedEvent again on every component that is still in   *)
(* m_loadOrder.                                                            *)
(***************************************************************************)
\* the step is a loadComponents call
IsLoadStep ==
    /\ Len(operations') = Len(operations) + 1
    /\ operations'[Len(operations')].operation = "loadComponents"

\* the callbacks on the components of m_loadOrder: initialiseEvent in load
\* order, then initialisationFinishedEvent in reverse load order
Redispatched ==
    LET n == Len(m_loadOrder)
    IN  [i \in 1..(2 * n) |->
            IF i <= n
            THEN Event(ThisCall, "initialiseEvent", m_loadOrder[i].second)
            ELSE Event(ThisCall, "initialisationFinishedEvent", m_loadOrder[2 * n + 1 - i].second)]

C31_SecondLoadOnlyRedispatches ==
    [][(IsLoadStep /\ loadCalls > 0) =>
           /\ heap' = heap
           /\ m_loadOrder' = m_loadOrder
           /\ m_componentSearchList' = m_componentSearchList
           /\ operations'[Len(operations')].resolvedLoadList = <<>>
           /\ calls' = calls \o Redispatched]_vars

\* the second loadComponents followed the first one directly and called back
\* two loaded components, while a third record was not loaded
C31_Witness ==
    /\ Len(operations) = 2
    /\ LoadOperations = {1, 2}
    /\ Len(m_loadOrder) = 2
    /\ Cardinality(CallsOf(2)) = 4
    /\ \E c \in Range(components) : ~heap[c].m_isLoaded

(***************************************************************************)
(* C32.  unloadComponents changes m_loadOrder only: the search list and,   *)
(* of every record, the flags, m_isLoaded, the dependencies and the        *)
(* missing dependency names stay as they are, so a component that was      *)
(* finalised and whose plugin loader was deleted still has isLoaded() true *)
(* and carries Loaded.                                                     *)
(***************************************************************************)
\* the step is an unloadComponents call or the destructor
IsUnloadStep ==
    /\ Len(operations') = Len(operations) + 1
    /\ operations'[Len(operations')].operation # "loadComponents"

\* the components some unloadComponents call or the destructor has unloaded
UnloadedComponents == UNION {Range(Seconds(operations[k].before)) : k \in UnloadOperations}

C32_UnloadKeepsRecords ==
    /\ [](\A c \in UnloadedComponents :
             /\ isLoaded(heap, c)
             /\ Loaded \in heap[c].m_loadFlags
             /\ EventsOn("finaliseEvent", c) # {})
    /\ [][IsUnloadStep =>
              /\ m_componentSearchList' = m_componentSearchList
              /\ DOMAIN heap' = DOMAIN heap
              /\ \A c \in DOMAIN heap :
                     /\ heap'[c].m_loadFlags = heap[c].m_loadFlags
                     /\ heap'[c].m_isLoaded = heap[c].m_isLoaded
                     /\ heap'[c].m_dependencies = heap[c].m_dependencies
                     /\ heap'[c].m_dependencyVersions = heap[c].m_dependencyVersions
                     /\ heap'[c].m_missingDependencies = heap[c].m_missingDependencies
              /\ m_loadOrder' = <<>>]_vars

\* unloadComponents has unloaded two components, m_loadOrder is empty and the
\* search list holds a record with a missing dependency name
C32_Witness ==
    /\ \E k \in UnloadOperations :
           operations[k].operation = "unloadComponents" /\ Len(operations[k].before) = 2
    /\ m_loadOrder = <<>>
    /\ \E c \in Range(components) : heap[c].m_missingDependencies # <<>>

(***************************************************************************)
(* C33.  When a name is discovered more than once before loadComponents,   *)
(* the search list holds one record for the name, the last one discovered, *)
(* and that record carries NameClash; no component of that name is ever    *)
(* loaded, and every record that declares a dependency on the name gets    *)
(* the edge to the flagged record and ends with MissingDependency, the     *)
(* name not being among its missing dependency names, instead of loading.  *)
(***************************************************************************)
\* the objects created for the name
Discovered(name) == {c \in DOMAIN heap : c[1] = name}

ClashingNames == {name \in Names : Cardinality(Discovered(name)) > 1}

\* the object created last for the name
Last(name) == <<name, Cardinality(Discovered(name)) - 1>>

DeclaresName(c, name) == \E i \in DOMAIN Declared(c) : Declared(c)[i].Name = name

\* the last record is the one of the search list, it is flagged, and nothing
\* of the name is loaded
LastRegisteredFlagged(name) ==
    /\ m_componentSearchList[name] = Last(name)
    /\ NameClash \in heap[Last(name)].m_loadFlags
    /\ \A c \in Discovered(name) :
           /\ ~isLoaded(heap, c)
           /\ Loaded \notin heap[c].m_loadFlags
           /\ EventsOn("load", c) = {}

\* c has the edge to the flagged record of the name and failed validation
FailsOnClash(c, name) ==
    /\ Last(name) \in DependenciesOf(c)
    /\ MissingDependency \in heap[c].m_loadFlags
    /\ ~Contains(heap[c].m_missingDependencies, name)
    /\ ~isLoaded(heap, c)

\* the claim as stated
C33_ClashFailsEveryDependent ==
    \A name \in ClashingNames :
        /\ LastRegisteredFlagged(name)
        /\ LoadOperations # {} =>
               \A c \in Range(components) : DeclaresName(c, name) => FailsOnClash(c, name)

\* C33 as amended: for the dependents that have no flag from discovery; a
\* dependent flagged at discovery gets no edge and no MissingDependency
C33_ClashFailsEveryUnflaggedDependent ==
    \A name \in ClashingNames :
        /\ LastRegisteredFlagged(name)
        /\ LoadOperations # {} =>
               \A c \in Range(components) :
                   DeclaresName(c, name) =>
                       IF heap[c].m_loadFlags \cap DiscoveryFlags = {}
                       THEN FailsOnClash(c, name)
                       ELSE /\ heap[c].m_dependencies = <<>>
                            /\ MissingDependency \notin heap[c].m_loadFlags
                            /\ ~isLoaded(heap, c)

\* a name was discovered twice and, after loadComponents, a record of another
\* name that depends on it carries MissingDependency with no missing name
C33_Witness ==
    /\ LoadOperations # {}
    /\ \E name \in ClashingNames : \E c \in Range(components) :
           /\ c[1] # name
           /\ DeclaresName(c, name)
           /\ heap[c].m_loadFlags = {MissingDependency}
           /\ heap[c].m_missingDependencies = <<>>
           /\ heap[c].m_dependencies = <<Last(name)>>

(***************************************************************************)
(* C34.  When a record declares one dependency name more than once with    *)
(* different minimum versions, validateDependencies enforces the minimum   *)
(* of the last declaration only, the earlier ones being overwritten, while *)
(* m_dependencies lists the dependency once for each declaration.          *)
(***************************************************************************)
\* the declarations of c whose name is in the search list
FoundDeclarations(c) == SelectSeq(Declared(c), LAMBDA d : d.Name \in DOMAIN m_componentSearchList)

\* the last declaration of c that names the name
LastDeclaration(c, name) ==
    CHOOSE i \in DOMAIN Declared(c) :
        /\ Declared(c)[i].Name = name
        /\ \A j \in DOMAIN Declared(c) : j > i => Declared(c)[j].Name # name

\* the minimum version of the last declaration of c that names the record d
LastMinimum(c, d) == fromString(Declared(c)[LastDeclaration(c, d[1])].Version)

\* c declares one name twice, with two minimum versions
DeclaresTwice(c) ==
    \E i, j \in DOMAIN Declared(c) :
        /\ i < j
        /\ Declared(c)[i].Name = Declared(c)[j].Name
        /\ Declared(c)[i].Version # Declared(c)[j].Version
        /\ Declared(c)[i].Name \in DOMAIN m_componentSearchList

C34_LastMinimumEnforced ==
    LoadOperations # {} =>
        \A c \in Range(components) :
            heap[c].m_loadFlags \cap DiscoveryFlags = {} =>
                /\ heap[c].m_dependencies =
                       [i \in DOMAIN FoundDeclarations(c) |-> m_componentSearchList[FoundDeclarations(c)[i].Name]]
                /\ \A d \in DependenciesOf(c) : heap[c].m_dependencyVersions[d] = LastMinimum(c, d)
                /\ Validated(c) =>
                       (IncompatibleVersion \in heap[c].m_loadFlags <=>
                            \E d \in DependenciesOf(c) :
                                isLoaded(heap, d) /\ VersionLess(version(heap, d), LastMinimum(c, d)))

\* a record that requires 1.10.0 and then 1.9.0 of a dependency at 1.9.0 is
\* loaded and lists the dependency twice
C34_Witness ==
    \E c \in Range(components) :
        /\ DeclaresTwice(c)
        /\ isLoaded(heap, c)
        /\ Len(heap[c].m_dependencies) = 2
        /\ heap[c].m_dependencies[1] = heap[c].m_dependencies[2]
        /\ version(heap, heap[c].m_dependencies[1]) = <<1, 9, 0>>
        /\ fromString(Declared(c)[1].Version) = <<1, 10, 0>>

(***************************************************************************)
(* C35.  The load order is determined by the set of records, not by the    *)
(* order of their discovery: the roots are visited in ascending name       *)
(* order, so sessions that discover the same records (no name twice) in    *)
(* different orders, with the same load function and plugin loader         *)
(* outcomes, get the same resolved load list, the same flags on every      *)
(* record and the same sequence of callbacks.                              *)
(***************************************************************************)
\* the plugin files of the discovered records
DiscoveredFiles == {heap[c].m_metadata : c \in DOMAIN heap}

\* the orders in which the discovered plugin files can be found
DiscoveryOrders ==
    {order \in [1..Cardinality(DiscoveredFiles) -> DiscoveredFiles] : NoDuplicates(order)}

\* addComponents on a new loader, the files found in the order given
DiscoverIn(order) == AddComponentsLoop([heap |-> <<>>, search |-> <<>>], order, 1)

\* loadComponents as operation number call of a loader that has discovered st
LoadFrom(st, loadFunction, pluginLoader, call) ==
    Let(FindDependencies([heap |-> st.heap, componentLoadList |-> <<>>], st.search, Keys(st.search), 1),
        LAMBDA found :
            Let(ResolveLoadOrder(found.heap, found.componentLoadList, 1, <<>>),
                LAMBDA loadList :
                    Let(LoadLoop([heap |-> found.heap, loadOrder |-> <<>>, calls |-> <<>>],
                                 loadList, 1, loadFunction, pluginLoader, call),
                        LAMBDA done :
                            [resolvedLoadList |-> loadList,
                             heap |-> done.heap,
                             loadOrder |-> done.loadOrder,
                             calls |-> done.calls \o DispatchLifecycle(done.loadOrder, call)])))

\* the first loadComponents has just returned
FirstLoadReturned == LoadOperations # {} /\ FirstLoad = Len(operations)

Kept(list, object) == {i \in DOMAIN list : list[i] # object}

\* the position of list that holds the n-th entry other than object
NthKept(list, object, n) ==
    CHOOSE i \in Kept(list, object) : Cardinality({j \in Kept(list, object) : j < i}) = n - 1

\* list without every occurrence of object
Without(list, object) ==
    [n \in 1..Cardinality(Kept(list, object)) |-> list[NthKept(list, object, n)]]

AddOperations == {k \in DOMAIN registryOperations : registryOperations[k].operation = "addObject"}

RemoveOperations == DOMAIN registryOperations \ AddOperations

C36_RegistryAddRemove ==
    /\ \A k \in AddOperations :
           LET call == registryOperations[k]
           IN  /\ Len(call.after) = Len(call.before) + 1
               /\ SubSeq(call.after, 1, Len(call.before)) = call.before
               /\ call.after[Len(call.after)] = call.object
    /\ \A k \in RemoveOperations :
           LET call == registryOperations[k]
           IN  /\ ~Contains(call.after, call.object)
               /\ call.after = Without(call.before, call.object)
               /\ ~Contains(call.before, call.object) => call.after = call.before
    /\ \A k \in DOMAIN registryOperations :
           /\ registryOperations[k].before =
                  IF k = 1 THEN <<>> ELSE registryOperations[k - 1].after
           /\ k = Len(registryOperations) => allObjects = registryOperations[k].after

\* an object was added while it was registered, and an object that was
\* registered first and third, with another object between, has been removed
C36_Witness ==
    /\ \E k \in AddOperations :
           Contains(registryOperations[k].before, registryOperations[k].object)
    /\ \E k \in RemoveOperations :
           LET call == registryOperations[k]
           IN  /\ Cardinality(DOMAIN call.before \ Kept(call.before, call.object)) = 2
               /\ Len(call.before) = 3
               /\ call.before[2] # call.object

(***************************************************************************)
(* C37.  getObject<T>() returns the object registered earliest among those *)
(* of the registry that implement T, or null when there is none; it is the *)
(* first element of getObjects<T>(), which lists every registered object   *)
(* that implements T in the order of registration.                         *)
(***************************************************************************)
\* the positions of the registry that hold an object implementing T
Implementing(T) == {i \in DOMAIN m_objectList : T \in Implements[m_objectList[i]]}

\* the n-th of these positions
NthImplementing(T, n) ==
    CHOOSE i \in Implementing(T) : Cardinality({j \in Implementing(T) : j < i}) = n - 1

C37_RegistryLookup ==
    \A T \in Interfaces :
        /\ getObjects(T) =
               [n \in 1..Cardinality(Implementing(T)) |-> m_objectList[NthImplementing(T, n)]]
        /\ Implementing(T) = {} => getObject(T) = nullObject /\ getObjects(T) = <<>>
        /\ Implementing(T) # {} =>
               /\ getObject(T) = m_objectList[NthImplementing(T, 1)]
               /\ getObject(T) = Head(getObjects(T))
               /\ getObject(T) # nullObject

\* the registry holds third, second, first: getObject finds second for IFirst,
\* getObjects lists third and second for ISecond, and nothing implements
\* IUnimplemented
C37_Witness ==
    /\ m_objectList = <<"third", "second", "first">>
    /\ getObject("IFirst") = "second"
    /\ getObjects("IFirst") = <<"second", "first">>
    /\ getObjects("ISecond") = <<"third", "second">>
    /\ getObject("IUnimplemented") = nullObject

====
